---------------------------- MODULE Spec2Model ----------------------------
(***************************************************************************)
(* A model of the response orchestration of the Telegram bot: the text     *)
(* handler (src/src/handlers/text_handlers.py), the Gemini client with its *)
(* circuit breaker (src/src/services/gemini_api.py) and the per-user       *)
(* conversation store.                                                     *)
(*                                                                         *)
(* A text is a sequence of strings.  Text that the code inspects character *)
(* by character (an inbound message, a trigger phrase) is a sequence of    *)
(* one-character strings; a literal of an f-string that the code only      *)
(* concatenates is a single element.                                       *)
(***************************************************************************)
EXTENDS Integers, Sequences, FiniteSets, TLC

(***************************************************************************)
(* Python string operations, as far as the handlers use them.              *)
(***************************************************************************)

\* str.lower() on one character
LowerChar(c) ==
    LET up == "A" :> "a" @@ "B" :> "b" @@ "C" :> "c" @@ "D" :> "d" @@ "E" :> "e" @@ "F" :> "f" @@ "G" :> "g" @@ "H" :> "h" @@ "I" :> "i" @@ "J" :> "j" @@ "K" :> "k" @@ "L" :> "l" @@ "M" :> "m" @@ "N" :> "n" @@ "O" :> "o" @@ "P" :> "p" @@ "Q" :> "q" @@ "R" :> "r" @@ "S" :> "s" @@ "T" :> "t" @@ "U" :> "u" @@ "V" :> "v" @@ "W" :> "w" @@ "X" :> "x" @@ "Y" :> "y" @@ "Z" :> "z"
    IN  IF c \in DOMAIN up THEN up[c] ELSE c

\* str.lower()
Lower(t) == [i \in 1..Len(t) |-> LowerChar(t[i])]

\* the characters str.strip() removes
IsSpace(c) == c \in {" ", "\n", "\t"}

\* t[n:] for n >= 0
DropFirst(t, n) == IF n >= Len(t) THEN <<>> ELSE SubSeq(t, n + 1, Len(t))

\* t[:n] for n >= 0
TakeFirst(t, n) == IF n >= Len(t) THEN t ELSE SubSeq(t, 1, n)

\* t[-n:] for n > 0
TakeLast(t, n) == IF n >= Len(t) THEN t ELSE SubSeq(t, Len(t) - n + 1, Len(t))

RECURSIVE LStrip(_)
LStrip(t) == IF t # <<>> /\ IsSpace(Head(t)) THEN LStrip(Tail(t)) ELSE t

RECURSIVE RStrip(_)
RStrip(t) ==
    IF t # <<>> /\ IsSpace(t[Len(t)]) THEN RStrip(SubSeq(t, 1, Len(t) - 1)) ELSE t

\* str.strip()
Strip(t) == RStrip(LStrip(t))

\* p occurs in t at the 0-based offset i
OccursAt(t, p, i) ==
    /\ i >= 0
    /\ i + Len(p) <= Len(t)
    /\ SubSeq(t, i + 1, i + Len(p)) = p

\* p in t
Contains(t, p) == \E i \in 0..(Len(t) - Len(p)) : OccursAt(t, p, i)

\* t.find(p): the lowest offset of p in t, -1 when there is none
Find(t, p) ==
    IF Contains(t, p)
    THEN CHOOSE i \in 0..(Len(t) - Len(p)) :
            /\ OccursAt(t, p, i)
            /\ \A j \in 0..(i - 1) : ~OccursAt(t, p, j)
    ELSE -1

\* t.startswith(p)
StartsWith(t, p) == OccursAt(t, p, 0)

\* t.replace(p, <<>>) for a non-empty p: every occurrence, left to right
RECURSIVE Remove(_, _)
Remove(t, p) ==
    IF t = <<>> THEN <<>>
    ELSE IF OccursAt(t, p, 0) THEN Remove(DropFirst(t, Len(p)), p)
    ELSE <<Head(t)>> \o Remove(Tail(t), p)

(***************************************************************************)
(* detect_image_generation_request (text_handlers.py, 540-593)             *)
(***************************************************************************)

image_triggers ==
    << <<"g","e","n","e","r","a","t","e"," ","a","n"," ","i","m","a","g","e">>,
       <<"g","e","n","e","r","a","t","e"," ","i","m","a","g","e">>,
       <<"c","r","e","a","t","e"," ","a","n"," ","i","m","a","g","e">>,
       <<"c","r","e","a","t","e"," ","i","m","a","g","e">>,
       <<"m","a","k","e"," ","a","n"," ","i","m","a","g","e">>,
       <<"m","a","k","e"," ","i","m","a","g","e">>,
       <<"d","r","a","w">>,
       <<"g","e","n","e","r","a","t","e"," ","a"," ","p","i","c","t","u","r","e">>,
       <<"c","r","e","a","t","e"," ","a"," ","p","i","c","t","u","r","e">>,
       <<"g","e","n","e","r","a","t","e"," ","i","m","g">>,
       <<"c","r","e","a","t","e"," ","i","m","g">>,
       <<"m","a","k","e"," ","i","m","g">>,
       <<"g","e","n","e","r","a","t","e"," ","a"," ","p","h","o","t","o">>,
       <<"i","m","a","g","e"," ","o","f">>,
       <<"p","i","c","t","u","r","e"," ","o","f">>,
       <<"p","h","o","t","o"," ","o","f">>,
       <<"d","r","a","w"," ","m","e">>,
       <<"g","e","n","e","r","a","t","e"," ","m","e"," ","a","n"," ","i","m","a","g","e">>,
       <<"c","r","e","a","t","e"," ","m","e"," ","a","n"," ","i","m","a","g","e">>,
       <<"m","a","k","e"," ","m","e"," ","a","n"," ","i","m","a","g","e">>,
       <<"g","e","n","e","r","a","t","e"," ","m","e"," ","a"," ","p","i","c","t","u","r","e">>,
       <<"c","a","n"," ","y","o","u"," ","g","e","n","e","r","a","t","e"," ","a","n"," ","i","m","a","g","e">>,
       <<"c","a","n"," ","y","o","u"," ","c","r","e","a","t","e"," ","a","n"," ","i","m","a","g","e">>,
       <<"i"," ","w","a","n","t"," ","a","n"," ","i","m","a","g","e"," ","o","f">>,
       <<"p","l","e","a","s","e"," ","m","a","k","e"," ","a","n"," ","i","m","a","g","e">> >>

clean_words ==
    << <<"o","f">>,
       <<"a","b","o","u","t">>,
       <<"s","h","o","w","i","n","g">>,
       <<"d","e","p","i","c","t","i","n","g">>,
       <<"t","h","a","t"," ","s","h","o","w","s">>,
       <<"w","i","t","h">>,
       <<":">>,
       <<"-">> >>

image_related_keywords ==
    << <<"i","m","a","g","e">>,
       <<"p","i","c","t","u","r","e">>,
       <<"p","h","o","t","o">>,
       <<"p","i","c">>,
       <<"i","m","g">>,
       <<"t","h","a","t"," ","i","m","a","g","e">>,
       <<"t","h","e"," ","p","i","c","t","u","r","e">> >>

document_related_keywords ==
    << <<"d","o","c","u","m","e","n","t">>,
       <<"d","o","c">>,
       <<"f","i","l","e">>,
       <<"p","d","f">>,
       <<"t","h","a","t"," ","d","o","c","u","m","e","n","t">>,
       <<"t","h","e"," ","f","i","l","e">>,
       <<"t","h","e"," ","p","d","f">>,
       <<"t","e","l","l"," ","m","e"," ","m","o","r","e">>,
       <<"m","o","r","e"," ","i","n","f","o","r","m","a","t","i","o","n">>,
       <<"m","o","r","e"," ","d","e","t","a","i","l","s">>,
       <<"e","x","p","l","a","i","n"," ","f","u","r","t","h","e","r">>,
       <<"t","e","l","l"," ","m","e"," ","a","b","o","u","t"," ","i","t">>,
       <<"w","h","a","t"," ","e","l","s","e">>,
       <<"e","l","a","b","o","r","a","t","e">> >>

\* sorted(image_triggers, key=len, reverse=True): a stable sort, longest first
RECURSIVE SortedFrom(_, _)
SortedFrom(list, n) ==
    IF n < 0 THEN <<>>
    ELSE SelectSeq(list, LAMBDA t : Len(t) = n) \o SortedFrom(list, n - 1)

LongestLen(list) ==
    CHOOSE n \in {Len(list[i]) : i \in DOMAIN list} :
        \A i \in DOMAIN list : Len(list[i]) <= n

SortedTriggers == SortedFrom(image_triggers, LongestLen(image_triggers))

\* any(trigger in text_lower for trigger in image_triggers)
AnyTrigger(text_lower) ==
    \E i \in DOMAIN image_triggers : Contains(text_lower, image_triggers[i])

\* the trigger at which the loop over the sorted triggers breaks
MatchedTrigger(text_lower) ==
    LET i == CHOOSE k \in DOMAIN SortedTriggers :
                /\ Contains(text_lower, SortedTriggers[k])
                /\ \A j \in 1..(k - 1) : ~Contains(text_lower, SortedTriggers[j])
    IN  SortedTriggers[i]

\* the offset at which the prompt is cut out of the original text
PromptStart(text_lower, trigger) == Find(text_lower, trigger) + Len(trigger)

\* the loop over clean_words, one pass in list order, from the k-th word on
RECURSIVE CleanPrompt(_, _)
CleanPrompt(raw_prompt, k) ==
    IF k > Len(clean_words) THEN raw_prompt
    ELSE LET word == clean_words[k]
         IN  CleanPrompt(IF StartsWith(Lower(raw_prompt), word \o <<" ">>)
                         THEN Strip(DropFirst(raw_prompt, Len(word)))
                         ELSE raw_prompt,
                         k + 1)

\* the pair (is_image_request, image_prompt)
detect_image_generation_request(text) ==
    IF text = <<>> THEN <<FALSE, <<>>>>
    ELSE LET text_lower == Strip(Lower(text))
         IN  IF AnyTrigger(text_lower)
             THEN LET trigger == MatchedTrigger(text_lower)
                      raw_prompt ==
                          Strip(DropFirst(text, PromptStart(text_lower, trigger)))
                  IN  <<TRUE, CleanPrompt(raw_prompt, 1)>>
             ELSE <<FALSE, <<>>>>

(***************************************************************************)
(* Bounds of the model                                                     *)
(***************************************************************************)

\* turns already stored for the first user when the model starts
SeedLen == 8
\* the clock stops advancing at this time (seconds)
MaxNow == 300
\* calls the circuit breaker's callers make in all
MaxCalls == 6
\* leading blanks put before a message given to the detector
MaxLead == 1

Users == {"u1", "u2"}
Reqs == {"r1", "r2"}
Callers == {"c1", "c2"}

(***************************************************************************)
(* GeminiAPI: the circuit breaker (gemini_api.py, 71-79 and 124-150)       *)
(***************************************************************************)

circuit_breaker_threshold == 5
circuit_breaker_timeout == 300

\* the API names __init__ creates counters for
ApiNames == {"api", "image_generation", "image_analysis"}

\* a variant of line 131 that opens the circuit one failure late
OpenAboveThreshold(fails, last, t) ==
    fails > circuit_breaker_threshold /\ (t - last) < circuit_breaker_timeout

\* line 131: the circuit is open
CircuitOpen(fails, last, t) ==
    fails >= circuit_breaker_threshold /\ (t - last) < circuit_breaker_timeout

\* a variant of lines 140-141 that never resets the counter
KeepCount(truthy, fails, current) == current

\* lines 140-141: the counter after api_function returned result; fails is the
\* count read when the call began, current the stored count
CountAfterResult(truthy, fails, current) ==
    IF truthy /\ fails > 0 THEN 0 ELSE current

\* a variant of lines 131-133 that counts the refused call as a failure
CountRefusal(fails) == fails + 1

\* lines 131-133: the counter after a call refused by the open circuit; the
\* branch returns None and sets nothing
CountAfterRefusal(fails) == fails

\* line 147: the counter after api_function raised
CountAfterFailure(fails) == fails + 1

(***************************************************************************)
(* GeminiAPI: the conversation sent to the backend (gemini_api.py, 357-452)*)
(***************************************************************************)

max_context_entries == 15

\* decimal numerals, for the numbers the code formats into text
Numeral(n) ==
    <<"1", "2", "3", "4", "5", "6", "7", "8", "9", "10", "11", "12", "13",
      "14", "15", "16", "17", "18", "19", "20">>[n]

ContentDict(role, parts) == [role |-> role, parts |-> parts]

SystemMessage ==
    <<"You are DeepGem, an AI assistant that can help with various tasks.">>
MemoryContext ==
    <<"You have the ability to remember previous conversations ...">>

\* line 408: the reminder about earlier messages
OmittedNote(n) ==
    <<"Note: There are ", Numeral(n),
      " earlier messages in our conversation that aren't shown here.">>

\* lines 413-416: the messages of the context that are passed on
PassedOn(message) ==
    /\ "role" \in DOMAIN message
    /\ "content" \in DOMAIN message
    /\ message.role # ""
    /\ message.content # <<>>

\* lines 399-420
ConversationContext(context) ==
    IF context = <<>> THEN <<>>
    ELSE LET recent_context == IF Len(context) > max_context_entries
                               THEN TakeLast(context, max_context_entries)
                               ELSE context
             note == IF Len(context) > max_context_entries
                     THEN <<ContentDict("user",
                              OmittedNote(Len(context) - max_context_entries))>>
                     ELSE <<>>
             kept == SelectSeq(recent_context, PassedOn)
         IN  note \o [i \in 1..Len(kept) |->
                        ContentDict(IF kept[i].role = "user" THEN "user"
                                                             ELSE "model",
                                    kept[i].content)]

\* lines 363-426: the list handed to vision_model.generate_content
GeminiConversation(prompt, context) ==
    <<ContentDict("user", SystemMessage), ContentDict("user", MemoryContext)>>
        \o ConversationContext(context)
        \o <<ContentDict("user", prompt)>>

\* line 355: what generate_response returns when the protected call raised
ApologyText ==
    <<"I'm sorry, I'm having trouble processing your request. Please try again later.">>

(***************************************************************************)
(* The conversation store and the per-user data of the framework.  The     *)
(* store the handlers are written against (add_to_context,                 *)
(* get_user_preference, an awaitable get_user_context) is not the class of *)
(* src/src/services/user_data_manager.py; it is modelled from its          *)
(* interface: an ordered list of turns and a preference per user.          *)
(***************************************************************************)

Turn(role, content) == [role |-> role, content |-> content]

\* add_to_context(user_id, message)
add_to_context(contexts, message) == Append(contexts, message)

\* get_user_context(user_id)
get_user_context(contexts) == contexts

\* what the preference store may hold for "preferred_model"
StoredModels == {"unset", "gemini", "deepseek", "nonexistent"}

\* get_user_preference(user_id, "preferred_model"): None when nothing is stored
get_user_preference(stored) == IF stored = "unset" THEN "None" ELSE stored

\* a text of n copies of the character c
Filled(c, n) == [i \in 1..n |-> c]

\* the turns stored before the model starts: alternating user and assistant
SeedHistory(n) ==
    [i \in 1..n |->
        Turn(IF i % 2 = 1 THEN "user" ELSE "assistant", <<"earlier turn ", Numeral(i)>>)]

(***************************************************************************)
(* TextHandler (text_handlers.py)                                          *)
(***************************************************************************)

max_context_length == 9

\* context.bot.username with the leading '@' (line 84)
BotUsername == <<"@", "b", "o", "t">>

\* lines 83-90: the group gate; FALSE when the message is to be ignored
PassesGate(chat, text) ==
    chat \notin {"group", "supergroup"} \/ Contains(text, BotUsername)

\* a variant that leaves the text as it came
AsReceived(chat, text) == text

\* line 90: the message text the rest of the handler works on
MessageText(chat, text) ==
    IF chat \in {"group", "supergroup"}
    THEN Strip(Remove(text, BotUsername))
    ELSE text

\* lines 100-101: any(keyword in message_text.lower() for keyword in keywords)
RefersTo(keywords, message_text) ==
    \E i \in DOMAIN keywords : Contains(Lower(message_text), keywords[i])

\* line 142
WantsMore(message_text) ==
    \/ Contains(Lower(message_text), <<"t","e","l","l"," ","m","e"," ","m","o","r","e">>)
    \/ Contains(Lower(message_text), <<"m","o","r","e"," ","d","e","t","a","i","l","s">>)

\* isinstance(item, dict): a stored item that is no record is modelled as a
\* record with the one field "scalar"
IsDict(item) == "scalar" \notin DOMAIN item

\* line 120: the stored items that are kept
ValidItem(item) ==
    /\ IsDict(item)
    /\ "role" \in DOMAIN item
    /\ "content" \in DOMAIN item

\* lines 111-120
FilterContext(contexts) == SelectSeq(contexts, ValidItem)

\* line 503
TruncatedDescription(description) ==
    IF description = <<>> THEN <<"No description">>
    ELSE IF Len(description) > 100
         THEN TakeFirst(description, 100) \o <<"...">>
         ELSE description

\* lines 493-509: the entries of the three most recent images, from the idx-th
RECURSIVE ImageEntries(_, _)
ImageEntries(recent_images, idx) ==
    IF idx > Len(recent_images) THEN <<>>
    ELSE <<"[Image ", Numeral(idx), "]: Caption: ">>
            \o recent_images[idx].caption
            \o <<"\nDescription: ">>
            \o TruncatedDescription(recent_images[idx].description)
            \o <<"\n\n">>
            \o ImageEntries(recent_images, idx + 1)

\* lines 487-509
get_image_context(image_history) ==
    IF image_history = <<>> THEN <<>>
    ELSE <<"Recently analyzed images:\n">>
            \o ImageEntries(TakeLast(image_history, 3), 1)

\* line 521: the record the document context is built from
MostRecentDocument(document_history) == document_history[Len(document_history)]

\* a variant of line 527 that takes the record's summary
RecordSummary(record) == record.summary

\* line 527: the text of the record that goes into the context
DocumentBody(record) == record.full_response

\* lines 511-538
get_document_context(document_history) ==
    IF document_history = <<>> THEN <<>>
    ELSE LET most_recent == MostRecentDocument(document_history)
         IN  <<"Recently analyzed document: ">> \o most_recent.file_name
                \o <<"\n\nFull content summary:\n">>
                \o DocumentBody(most_recent)
                \o <<"\n\nPlease provide additional details or answer follow-up questions about this document.">>

ImageIntro ==
    <<"The user is referring to previously shared images. Here's the context of those images:\n\n">>
DocumentIntro ==
    <<"The user is referring to previously processed documents. Here's the context of those documents:\n\n">>
DocumentAlso ==
    <<"\n\nThe user is also referring to previously processed documents. Document context:\n\n">>
MoreIntro ==
    <<"The user wants more information about the previously analyzed document. Here's the document context:\n\n">>
MoreOutro ==
    <<"\n\nProvide more detailed analysis focusing on aspects not covered in the initial response.">>
UserQuestion == <<"\n\nUser's question: ">>

\* lines 122-145: enhanced_prompt
EnhancedPrompt(message_text, image_history, document_history) ==
    LET referring_to_image == RefersTo(image_related_keywords, message_text)
        referring_to_document == RefersTo(document_related_keywords, message_text)
        with_image == referring_to_image /\ image_history # <<>>
        after_image ==
            IF with_image
            THEN ImageIntro \o get_image_context(image_history)
                    \o UserQuestion \o message_text
            ELSE message_text
        after_document ==
            IF referring_to_document /\ document_history # <<>>
            THEN IF with_image
                 THEN after_image \o DocumentAlso
                         \o get_document_context(document_history)
                 ELSE DocumentIntro \o get_document_context(document_history)
                         \o UserQuestion \o message_text
            ELSE after_image
    IN  IF WantsMore(message_text) /\ document_history # <<>>
        THEN MoreIntro \o get_document_context(document_history) \o MoreOutro
        ELSE after_document

\* a variant of line 159 that never asks the generator
NeverImagePath(detected) == FALSE

\* line 159: the image generator is asked
TakesImagePath(detected) == detected[1] /\ detected[2] # <<>>

\* lines 213-221: preferred_model; read is the store's answer, "error" when the
\* lookup raised
PreferredModel(read) == IF read \in {"None", "error"} THEN "gemini" ELSE read

\* lines 603-620
StyleInstruction(preferred_model) ==
    IF preferred_model = "deepseek"
    THEN "Please follow these guidelines for your response: (detailed analytical responses ...)"
    ELSE "Please follow these guidelines for your response: (straightforward language ...)"

\* lines 595-627
apply_response_guidelines(prompt, preferred_model) ==
    <<StyleInstruction(preferred_model), "\n\nUser query: ">> \o prompt

\* a variant of lines 227 and 242 that sends only "gemini" to Gemini
GeminiByName(preferred_model) ==
    IF preferred_model = "gemini" THEN "gemini" ELSE "deepseek"

\* lines 227 and 242: the backend the request is sent to
Backend(preferred_model) ==
    IF preferred_model = "deepseek" THEN "deepseek" ELSE "gemini"

\* line 247: the context argument of the Gemini call
GeminiContext(user_context) ==
    IF user_context # <<>> THEN TakeLast(user_context, max_context_length) ELSE <<>>

\* line 281
ModelIndicator(preferred_model) ==
    IF preferred_model = "gemini" THEN "Gemini" ELSE "DeepSeek"

\* a variant of line 342 that stores the prompt sent to the model
PromptTurn(message_text, prompt) == [role |-> "user", content |-> prompt]

\* line 342: the user turn stored after a reply
StoredUserTurn(message_text, prompt) == Turn("user", message_text)

\* line 343: the assistant turn stored after a reply
StoredAssistantTurn(response) == Turn("assistant", response)

\* a reply of a backend: None, or a text that may be empty
NoneResponse == [none |-> TRUE, text |-> <<>>]
TextResponse(text) == [none |-> FALSE, text |-> text]

\* Python's truth value of a reply
Truthy(response) == ~response.none /\ response.text # <<>>

\* line 341: the history is updated
StoresTurns(response) == Truthy(response)

\* a variant that stores the image prompt and the caption as they are
BarePromptTurns(image_prompt) ==
    << Turn("user", image_prompt),
       Turn("assistant", <<"Generated image of: ">> \o image_prompt) >>

\* lines 186-193: the turns stored after an image was generated
GeneratedImageTurns(image_prompt) ==
    << Turn("user", <<"Generate an image of: ">> \o image_prompt),
       Turn("assistant",
            <<"Here's the image I generated of ">> \o image_prompt \o <<".">>) >>

(***************************************************************************)
(* The handlers that fill the attachment histories.  Their effect on the   *)
(* store and on the user's data is an operator on a record                 *)
(* [history, image_history, document_history] of one user.                 *)
(***************************************************************************)

DocumentName == <<"report.pdf">>
DocumentPrompt ==
    <<"Please analyze this PDF file and provide a detailed summary.">>

\* message_handlers.py 711-713
Summary(response) ==
    IF Len(response) > 300 THEN TakeFirst(response, 300) \o <<"...">> ELSE response

\* message_handlers.py 687-721: a document was analysed
AfterDocument(data, response) ==
    [data EXCEPT
        !.history =
            add_to_context(
                add_to_context(@,
                    Turn("user", <<"[Document: ">> \o DocumentName
                                    \o <<" with prompt: ">> \o DocumentPrompt \o <<"]">>)),
                Turn("assistant", response)),
        !.document_history =
            Append(@, [file_name |-> DocumentName,
                       prompt |-> DocumentPrompt,
                       summary |-> Summary(response),
                       full_response |-> response])]

ImageCaption == <<"Please analyze this image and describe it.">>

\* text_handlers.py 427-447: an image was analysed
AfterImage(data, response) ==
    [data EXCEPT
        !.history =
            add_to_context(
                add_to_context(@,
                    Turn("user", <<"[Image with caption: ">> \o ImageCaption \o <<"]">>)),
                Turn("assistant", response)),
        !.image_history =
            Append(@, [caption |-> ImageCaption, description |-> response])]

(***************************************************************************)
(* Inputs                                                                  *)
(***************************************************************************)

M_hi == <<"h","i">>
M_more == <<"T","e","l","l"," ","m","e"," ","m","o","r","e">>
M_draw == <<"d","r","a","w"," ","a"," ","c","a","t">>
M_pic_draw == <<"p","i","c",","," ","d","r","a","w">>
M_photo_pdf == <<"p","h","o","t","o"," ","o","f"," ","t","h","e"," ","p","d","f">>
M_pic_doc == <<"p","i","c"," ","a","n","d"," ","d","o","c">>
M_more_pic ==
    <<"m","o","r","e"," ","d","e","t","a","i","l","s",","," ","p","i","c">>
M_group == <<"@","b","o","t"," ","d","o","c","?">>
M_mentions ==
    <<"@","b","o","t"," ","d","r","a","w"," ","a"," ","c","a","t"," ","@","b","o","t">>

\* the inbound text messages: chat type and text
Inbound ==
    { <<"private", M_hi>>, <<"private", M_more>>, <<"private", M_draw>>,
      <<"private", M_pic_draw>>, <<"private", M_photo_pdf>>,
      <<"private", M_pic_doc>>, <<"group", M_group>>, <<"group", M_hi>>,
      <<"supergroup", M_mentions>>, <<"private", M_more_pic>> }

\* the texts the handler classifies
MessageTexts == {MessageText(i[1], i[2]) : i \in Inbound}

\* detect_image_generation_request over the inbound texts
Detected == [m \in MessageTexts |-> detect_image_generation_request(m)]

\* what a text backend may answer
ReplyTexts == {<<"the model's reply">>}
Replies == {TextResponse(t) : t \in ReplyTexts} \cup {TextResponse(<<>>), NoneResponse}

\* the analyses of two uploaded documents: a short one, then one longer than
\* its summary
FirstDocument == Filled("b", 4)
SecondDocument == Filled("a", 301)

\* the description of an analysed image, longer than the context keeps of it
ImageDescription == Filled("i", 101)

\* one user's data before the requests of the model: SeedLen stored turns,
\* and with attachments the two documents and the image analysed after them
SeedData(attachments) ==
    LET plain == [history |-> SeedHistory(SeedLen), image_history |-> <<>>,
                  document_history |-> <<>>]
    IN  IF attachments
        THEN AfterImage(AfterDocument(AfterDocument(plain, FirstDocument),
                                      SecondDocument),
                        ImageDescription)
        ELSE plain

(***************************************************************************)
(* State                                                                   *)
(***************************************************************************)

VARIABLES
    history,            \* the store: user -> the stored turns ("contexts")
    preference,         \* the store: user -> "preferred_model"
    image_history,      \* context.user_data['image_history'] of each user
    document_history,   \* context.user_data['document_history'] of each user
    last_queries,       \* TextHandler.last_queries
    req,                \* the text requests: request -> locals and position
    failures,           \* GeminiAPI.<api_name>_failures
    last_failure,       \* GeminiAPI.<api_name>_last_failure
    now,                \* time.time(), in seconds
    cb,                 \* direct callers of call_with_circuit_breaker
    streak,             \* api -> failed calls in a row, none overlapping another
    lastFailAt,         \* api -> the time of its latest failed call
    opened,             \* api -> the count reached the threshold and no call
                        \*        has succeeded since
    ncalls,             \* calls the direct callers have begun
    dpc,                \* the detector run: "input" or "done"
    dtext,              \* the detector run: the text given
    dresult,            \* the detector run: the pair returned
    handlers,           \* ModelHandlerFactory._handlers: name -> instance
    constructed,        \* the handler instances constructed so far
    fc,                 \* the callers of get_model_handler
    tasks,              \* the background tasks the webhook has added, in order
    posted,             \* the webhook posts received so far
    dispatched,         \* update_id -> the handler runs begun for that update
    permits,            \* the value of MessageHandlers.request_limiter
    waiting,            \* kind -> attachment tasks waiting for the semaphore
    inside,             \* kind -> attachment tasks inside "async with"
    text_calls,         \* text requests waiting for their model call to return
    failedAt,           \* api -> the times at which its calls failed, in order
    fpc,                \* should_ignore_update: "input" before the call, "done" after
    fupdate,            \* its argument update_data
    fusername,          \* its argument bot_username, <<>> for None
    fignore,            \* what it returned
    retry,              \* generate_content_with_retry: its locals and position
    deepseek,           \* DeepSeekHandler.generate_response: arguments and messages
    bot_messages,       \* context.user_data['bot_messages'] of each user:
                        \* message id -> the ids of the bot's replies to it
    deleted,            \* the ids of the bot's messages deleted from the chat
    users_collection,   \* UserDataManager: user id -> the stored document
    split,              \* split_long_message: arguments and the chunks returned
    escaped,            \* the exceptions that left process_update, in order
    mclient             \* the caller of UserDataManager: per user the messages
                        \* added without error, and the last call's result

storeVars == <<history, preference, image_history, document_history, last_queries>>
breakerVars == <<failures, last_failure, now, lastFailAt>>
callerVars == <<cb, streak, opened, ncalls>>
detectVars == <<dpc, dtext, dresult>>
factoryVars == <<handlers, constructed, fc>>
webhookVars == <<tasks, posted, dispatched>>
limiterVars == <<permits, waiting, inside, text_calls>>
windowVars == <<failedAt>>
filterVars == <<fpc, fupdate, fusername, fignore>>
retryVars == <<retry>>
deepseekVars == <<deepseek>>
editVars == <<bot_messages, deleted>>
managerVars == <<users_collection, mclient>>
splitVars == <<split>>
updateVars == <<escaped>>
vars == <<storeVars, req, breakerVars, callerVars, detectVars, factoryVars, webhookVars,
         limiterVars, windowVars, filterVars, retryVars, deepseekVars, editVars,
         managerVars, splitVars, updateVars>>

\* a request slot before its message arrives
IdleRequest ==
    [ pc |-> "idle", user |-> "u1", chat |-> "private", text |-> <<>>,
      message_text |-> <<>>, user_context |-> <<>>, enhanced_prompt |-> <<>>,
      image_prompt |-> <<>>, read |-> "", preferred_model |-> "",
      prompt |-> <<>>, fails |-> 0, response |-> NoneResponse,
      thinking |-> FALSE,   \* the "Thinking..." message is in the chat
      sent |-> <<>>,        \* the bot's messages in the chat, in order
      calls |-> <<>>,       \* the generator and backend calls made, in order
      appended |-> <<>>,    \* the turns this request added to the history
      failure |-> "no",     \* how the model invocation failed, if it did
      storeFailed |-> FALSE,  \* reading the stored history raised
      update_id |-> 0,      \* the update a webhook post brought, 0 if none
      message_id |-> 0,     \* message.message_id
      admitted |-> FALSE,   \* the circuit-breaker check let the call through
      acquired |-> FALSE,   \* rate_limiter.acquire() has completed
      readAfter |-> {} ]    \* the requests in flight that had read the history
                            \* when this one read it

\* a direct caller of call_with_circuit_breaker between two calls
IdleCaller ==
    [ pc |-> "idle", api |-> "api",
      failures |-> 0,       \* the local "failures": the count read at line 127
      tripped |-> FALSE,    \* the call began after a full streak, in the window
      probe |-> FALSE,      \* the call began while the api was "opened"
      alone |-> FALSE,      \* no other call for the api was in flight with it
      last |-> "" ]         \* how the latest call ended

\* the first user has stored turns, a stored preference or none and, in some
\* runs, attachments; the second user is new
InitStore ==
    /\ \E attachments \in BOOLEAN :
          LET data == SeedData(attachments)
          IN  /\ history = [u \in Users |-> IF u = "u1" THEN data.history ELSE <<>>]
              /\ image_history =
                    [u \in Users |-> IF u = "u1" THEN data.image_history ELSE <<>>]
              /\ document_history =
                    [u \in Users |-> IF u = "u1" THEN data.document_history ELSE <<>>]
    /\ \E m \in StoredModels :
          preference = [u \in Users |-> IF u = "u1" THEN m ELSE "unset"]
    /\ last_queries = [u \in Users |-> <<>>]

InitRequests == req = [r \in Reqs |-> IdleRequest]

InitBreaker ==
    /\ failures = [a \in ApiNames |-> 0]
    /\ last_failure = [a \in ApiNames |-> 0]
    /\ lastFailAt = [a \in ApiNames |-> 0]
    /\ now = 0

InitCallers ==
    /\ cb = [c \in Callers |-> IdleCaller]
    /\ streak = [a \in ApiNames |-> 0]
    /\ opened = [a \in ApiNames |-> FALSE]
    /\ ncalls = 0
    /\ failedAt = [a \in ApiNames |-> <<>>]

(***************************************************************************)
(* MessageFilter.should_ignore_update (utils/ignore_message.py)            *)
(***************************************************************************)

MaxEntities == 2

\* line 70: the name used when no bot_username is given
FallbackUsername ==
    <<"G","e","m","i","n","i","_","A","I","A","s","s","i","s","t","B","o","t">>
GivenUsername == <<"b","o","t">>

\* no media key counts
NoKeys(message) == FALSE

\* lines 55-56: the message carries a photo, a sticker, an animation or a video
has_media(message) ==
    message.keys \cap {"photo", "sticker", "animation", "video"} # {}

\* lines 80-96: the loop over the entities; "raised" when an entity is no
\* record and entity.get raises
RECURSIVE mentioned_in_entities(_, _, _)
mentioned_in_entities(entities, message_text, bot_username) ==
    IF entities = <<>> THEN "False"
    ELSE LET entity == Head(entities)
         IN  IF ~IsDict(entity) THEN "raised"
             ELSE IF /\ entity.type = "mention"
                     /\ entity.offset + entity.length <= Len(message_text)
                     /\ SubSeq(message_text, entity.offset + 1,
                               entity.offset + entity.length)
                            = <<"@">> \o bot_username
                  THEN "True"
             ELSE IF /\ entity.type = "text_mention"
                     /\ entity.user.is_bot
                     /\ entity.user.username = bot_username
                  THEN "True"
             ELSE mentioned_in_entities(Tail(entities), message_text, bot_username)

\* lines 39-106: the body of the try block; "raised" when it raises
FilterBody(update_data, given_username) ==
    IF "message" \notin DOMAIN update_data THEN "False"
    ELSE LET message == update_data.message
         IN  IF ~IsDict(message) THEN "raised"
             ELSE IF message.chat_type \notin {"group", "supergroup"} THEN "False"
             ELSE IF has_media(message) THEN "True"
             ELSE IF "text" \notin message.keys THEN "True"
             ELSE LET bot_username == IF given_username = <<>>
                                      THEN FallbackUsername ELSE given_username
                      mentioned_in_text ==
                          Contains(message.text, <<"@">> \o bot_username)
                      in_entities ==
                          mentioned_in_entities(message.entities, message.text,
                                                bot_username)
                  IN  IF in_entities = "raised" THEN "raised"
                      ELSE IF mentioned_in_text \/ in_entities = "True"
                           THEN "False"
                           ELSE "True"

\* lines 38-111: an exception in the filter is logged and answered with False
should_ignore_update(update_data, given_username) ==
    FilterBody(update_data, given_username) = "True"

\* the entities a message may carry: mentions at three offsets, a text
\* mention of the bot and of a person, and a value that is no record
FilterEntities ==
    { [type |-> "mention", offset |-> 0, length |-> 4],
      [type |-> "mention", offset |-> 3, length |-> 4],
      [type |-> "mention", offset |-> 6, length |-> 4],
      [type |-> "text_mention", user |-> [is_bot |-> TRUE, username |-> GivenUsername]],
      [type |-> "text_mention",
       user |-> [is_bot |-> FALSE, username |-> <<"a","n","n">>]],
      [scalar |-> "text"] }

FilterTexts ==
    { <<>>, <<"h","i">>, <<"@","b","o","t"," ","h","i">>,
      <<"h","i"," ","@","b","o","t">>, <<"@","b","o","t","2">>,
      <<"@">> \o FallbackUsername }

\* the messages of the updates: chat type, the keys present in the message
\* besides "chat", the text and the entities
FilterMessages ==
    { [chat_type |-> t, keys |-> media \cup has_text, text |-> text,
       entities |-> entities] :
        t \in {"private", "group", "supergroup", "channel"},
        media \in {{}, {"photo"}, {"sticker"}, {"animation"}, {"video"}},
        has_text \in {{}, {"text"}},
        text \in FilterTexts,
        entities \in UNION { [1..n -> FilterEntities] : n \in 0..MaxEntities } }

\* the updates: an edited message or the like, a message that is null, and
\* the messages (a message without the key "text" has no text)
FilterUpdates ==
    { [update_id |-> 1], [update_id |-> 1, message |-> [scalar |-> "null"]] }
        \cup { [update_id |-> 1, message |-> m] :
                 m \in {x \in FilterMessages : "text" \in x.keys \/ x.text = <<>>} }

InitFilter ==
    /\ fpc = "done"
    /\ fupdate = [update_id |-> 1]
    /\ fusername = <<>>
    /\ fignore = FALSE

\* should_ignore_update is called
Filter ==
    /\ fpc = "input"
    /\ fignore' = should_ignore_update(fupdate, fusername)
    /\ fpc' = "done"
    /\ UNCHANGED <<fupdate, fusername, storeVars, req, breakerVars, callerVars,
                   detectVars, factoryVars, webhookVars, limiterVars, windowVars,
                   retryVars, deepseekVars, editVars, managerVars, splitVars,
                   updateVars>>

(***************************************************************************)
(* GeminiAPI.generate_content_with_retry (gemini_api.py 562-587)           *)
(***************************************************************************)

MaxRetries == 5

\* str.upper() on one character
UpperChar(c) ==
    LET letters == {"A","B","C","D","E","F","G","H","I","J","K","L","M","N","O",
                    "P","Q","R","S","T","U","V","W","X","Y","Z"}
    IN  IF \E u \in letters : LowerChar(u) = c /\ u # c
        THEN CHOOSE u \in letters : LowerChar(u) = c
        ELSE c

\* str.upper()
Upper(t) == [i \in 1..Len(t) |-> UpperChar(t[i])]

RateLimitText ==
    <<"R","A","T","E","_","L","I","M","I","T","_","E","X","C","E","E","D","E","D">>

\* line 587: the text of the exception raised on the last attempt
UnavailableText == <<"Service is currently unavailable. Please try again later.">>

\* what an invocation of the backend ends with: a response, or an exception
\* with one of these texts
NoError == <<>>
BackendErrors ==
    { <<"4","2","9"," ">> \o RateLimitText,
      <<"q","u","o","t","a",":"," ">> \o Lower(RateLimitText),
      <<"5","0","0"," ","i","n","t","e","r","n","a","l">> }

\* line 578
IsRateLimit(error) == Contains(Upper(error), RateLimitText)

IdleRetry ==
    [ pc |-> "idle", max_retries |-> 0, attempt |-> 0, retry_delay |-> 1,
      calls |-> <<>>,       \* what each invocation of the backend ended with
      waits |-> <<>>,       \* the seconds slept, in order
      raised |-> <<>> ]     \* the text of the exception that left the function

InitRetry == retry = IdleRetry

\* lines 566-587: one pass of the loop: the backend is invoked inside the rate
\* limiter; a response is returned; an error before the last attempt is
\* slept on and retried if it is a rate limit and raised again if not; an
\* error on the last attempt is replaced by the exception of line 587
RetryAttempt(result) ==
    /\ retry.pc = "loop"
    /\ retry.attempt < retry.max_retries
    /\ LET called == [retry EXCEPT !.calls = Append(@, result)]
       IN  retry' =
             IF result = NoError
             THEN [called EXCEPT !.pc = "returned"]
             ELSE IF retry.attempt < retry.max_retries - 1
                  THEN IF IsRateLimit(result)
                       THEN [called EXCEPT !.waits = Append(@, retry.retry_delay),
                                           !.retry_delay = @ * 2,
                                           !.attempt = @ + 1]
                       ELSE [called EXCEPT !.raised = result, !.pc = "raised"]
                  ELSE [called EXCEPT !.raised = UnavailableText, !.pc = "raised"]
    /\ UNCHANGED <<storeVars, req, breakerVars, callerVars, detectVars,
                   factoryVars, webhookVars, limiterVars, windowVars, filterVars,
                   deepseekVars, editVars, managerVars, splitVars, updateVars>>

\* line 566 with nothing left in range(max_retries): the function ends
\* without a return statement
RetryRangeEmpty ==
    /\ retry.pc = "loop"
    /\ retry.attempt >= retry.max_retries
    /\ retry' = [retry EXCEPT !.pc = "returned"]
    /\ UNCHANGED <<storeVars, req, breakerVars, callerVars, detectVars,
                   factoryVars, webhookVars, limiterVars, windowVars, filterVars,
                   deepseekVars, editVars, managerVars, splitVars, updateVars>>

(***************************************************************************)
(* DeepSeekHandler.generate_response (deepseek_handler.py 27-66)           *)
(***************************************************************************)

IdleDeepSeek == [pc |-> "done", prompt |-> <<>>, context |-> <<>>, messages |-> <<>>]

InitDeepSeek == deepseek = IdleDeepSeek

(***************************************************************************)
(* UserDataManager (services/user_data_manager.py 17-103) over a MongoDB   *)
(* collection: update_one without upsert changes nothing when no document  *)
(* matches the filter                                                      *)
(***************************************************************************)

MaxMessages == 3

\* lines 24-36: the document of a new user
NewUser == [contexts |-> <<>>]

\* lines 68-71: update_one({"user_id": user_id}, {"$push": {"contexts": message}})
add_message(collection, user_id, message) ==
    IF user_id \in DOMAIN collection
    THEN [collection EXCEPT ![user_id].contexts = Append(@, message)]
    ELSE collection

\* lines 85-89, 24-36: find_one, and initialize_user when nothing is found
get_user_data(collection, user_id) ==
    IF user_id \in DOMAIN collection THEN collection
    ELSE (user_id :> NewUser) @@ collection

IdleClient ==
    [ last |-> "none", user |-> "u1", got |-> <<>>,
      sent |-> [u \in Users |-> <<>>], calls |-> 0 ]

InitManager ==
    /\ users_collection = <<>>
    /\ mclient = IdleClient

\* add_message(user_id, message) returns
AddMessage(user_id, message) ==
    /\ mclient.calls < MaxMessages
    /\ users_collection' = add_message(users_collection, user_id, message)
    /\ mclient' = [mclient EXCEPT !.last = "added", !.user = user_id,
                                !.sent[user_id] = Append(@, message),
                                !.calls = @ + 1]
    /\ UNCHANGED <<storeVars, req, breakerVars, callerVars, detectVars,
                   factoryVars, webhookVars, limiterVars, windowVars, filterVars,
                   retryVars, deepseekVars, editVars, splitVars, updateVars>>

\* lines 72-76: update_one raises and add_message raises it again
AddMessageRaises(user_id) ==
    /\ mclient.last # "raised"
    /\ mclient' = [mclient EXCEPT !.last = "raised", !.user = user_id]
    /\ UNCHANGED <<users_collection, storeVars, req, breakerVars, callerVars,
                   detectVars, factoryVars, webhookVars, limiterVars, windowVars,
                   filterVars, retryVars, deepseekVars, editVars, splitVars,
                   updateVars>>

\* lines 95-103: get_user_context(user_id) returns
GetUserContext(user_id) ==
    /\ mclient.last \in {"added", "raised"}
    /\ users_collection' = get_user_data(users_collection, user_id)
    /\ mclient' = [mclient EXCEPT
                     !.last = "read", !.user = user_id,
                     !.got = get_user_data(users_collection, user_id)[user_id].contexts]
    /\ UNCHANGED <<storeVars, req, breakerVars, callerVars, detectVars,
                   factoryVars, webhookVars, limiterVars, windowVars, filterVars,
                   retryVars, deepseekVars, editVars, splitVars, updateVars>>

\* no message has been answered yet
InitEdit ==
    /\ bot_messages = [u \in Users |-> <<>>]
    /\ deleted = {}

InitDetect ==
    /\ dpc = "done"
    /\ dtext = <<>>
    /\ dresult = <<FALSE, <<>>>>

(***************************************************************************)
(* ModelHandlerFactory (factory.py)                                        *)
(***************************************************************************)

\* lines 37, 43, 49: the names a handler class exists for
KnownModels == {"gemini", "deepseek", "quasar_alpha"}

\* the names get_model_handler is asked for
ModelNames == KnownModels \cup {"nonexistent"}

\* no handler
NoHandler == [model_name |-> "", by |-> "", client |-> FALSE]

\* a handler instance: its class, the call that constructed it and whether it
\* wraps an API client
Handler(model_name, by, client) ==
    [model_name |-> model_name, by |-> by, client |-> client]

\* a variant of lines 37-56 without the checks for a missing client
KnownOnly(model_name, supplied) == model_name \in KnownModels

\* lines 37-56: a handler is constructed, otherwise ValueError is raised
Constructs(model_name, supplied) == model_name \in KnownModels /\ supplied

\* a caller of get_model_handler between two calls
IdleGetter ==
    [ pc |-> "idle", model_name |-> "", supplied |-> FALSE,
      result |-> NoHandler ]   \* the instance returned

\* factory.py 14: the class starts with an empty cache
InitFactory ==
    /\ handlers = [n \in ModelNames |-> NoHandler]
    /\ constructed = {}
    /\ fc = [c \in Callers |-> IdleGetter]

(***************************************************************************)
(* handle_text_message (text_handlers.py, 55-365), one action per stretch  *)
(* of the coroutine between two awaits that matter                         *)
(***************************************************************************)

ThinkingNotice == <<"Thinking...">>
GeneratingNotice == <<"Generating image... This may take a moment.">>
NoImageNotice ==
    <<"Sorry, I couldn't generate that image. Please try a different description or use the /imagen3 command.">>
ImageErrorNotice ==
    <<"Sorry, there was an error generating your image. Please try again later.">>
\* the notices sent with parse_mode='MarkdownV2' (253-256, 260-263, 269-272,
\* 362-365), character by character where MarkdownV2 reserves a character: a
\* "\\." of the source is a backslash followed by a full stop
TimeoutNotice ==
    <<"Sorry, the request took too long to process", ".",
      " Please try again later", ".">>
ErrorNotice ==
    <<"Sorry, there was an error processing your request", ".",
      " Please try again later", ".">>
NoResponseNotice ==
    <<"Sorry, I couldn't generate a response", "\\", ".",
      " Please try rephrasing your message", "\\", ".">>
InternalErrorNotice ==
    <<"Sorry, I encountered an error", "\\", ".",
      " Please try again later", "\\", ".">>
NoChunkText == <<"No response generated. Please try again.">>

(***************************************************************************)
(* TextHandler.split_long_message (text_handlers.py 33-53)                 *)
(***************************************************************************)

MaxText == 6

\* text.split('\n')
RECURSIVE SplitLines(_)
SplitLines(text) ==
    IF \A i \in 1..Len(text) : text[i] # "\n" THEN <<text>>
    ELSE LET i == CHOOSE j \in 1..Len(text) :
                     text[j] = "\n" /\ \A k \in 1..(j - 1) : text[k] # "\n"
         IN  <<SubSeq(text, 1, i - 1)>> \o SplitLines(SubSeq(text, i + 1, Len(text)))

\* lines 43-51: the loop over the lines from the k-th on, and what follows it
RECURSIVE CollectChunks(_, _, _, _, _)
CollectChunks(lines, k, chunks, current_chunk, max_length) ==
    IF k > Len(lines)
    THEN IF current_chunk # <<>> THEN Append(chunks, current_chunk) ELSE chunks
    ELSE LET line == lines[k]
         IN  IF Len(current_chunk) + Len(line) + 1 > max_length
             THEN CollectChunks(lines, k + 1, Append(chunks, current_chunk), line,
                                max_length)
             ELSE CollectChunks(lines, k + 1, chunks,
                                IF current_chunk # <<>>
                                THEN current_chunk \o <<"\n">> \o line
                                ELSE line,
                                max_length)

\* lines 33-53
split_long_message(text, max_length) ==
    IF text = <<>> THEN <<NoChunkText>>
    ELSE IF Len(text) <= max_length THEN <<text>>
    ELSE CollectChunks(SplitLines(text), 1, <<>>, <<>>, max_length)

IdleSplit == [pc |-> "done", text |-> <<>>, max_length |-> 1, chunks |-> <<>>]

InitSplit == split = IdleSplit

\* split_long_message is called
Split ==
    /\ split.pc = "input"
    /\ split' = [split EXCEPT
                    !.chunks = split_long_message(split.text, split.max_length),
                    !.pc = "done"]
    /\ UNCHANGED <<storeVars, req, breakerVars, callerVars, detectVars,
                   factoryVars, webhookVars, limiterVars, windowVars, filterVars,
                   retryVars, deepseekVars, editVars, managerVars, updateVars>>

Call(backend, prompt, conversation) ==
    [backend |-> backend, prompt |-> prompt, conversation |-> conversation]

\* the characters MarkdownV2 reserves among those the notices use
ReservedCharacters == {".", "!"}

\* Telegram parses a MarkdownV2 text only if every reserved character in it
\* follows a backslash; otherwise reply_text raises BadRequest
ParsesAsMarkdownV2(message) ==
    \A i \in 1..Len(message) :
        message[i] \in ReservedCharacters => (i > 1 /\ message[i - 1] = "\\")

\* the outermost except clause (355-365): the "Thinking..." message is deleted
\* if it is still there and the internal error notice is sent as MarkdownV2;
\* if that send raises too, the exception leaves the handler
InternalError(request) ==
    LET rest == SelectSeq(request.sent, LAMBDA m : m # ThinkingNotice)
    IN  IF ParsesAsMarkdownV2(InternalErrorNotice)
        THEN [request EXCEPT !.thinking = FALSE,
                             !.sent = Append(rest, InternalErrorNotice),
                             !.pc = "error"]
        ELSE [request EXCEPT !.thinking = FALSE, !.sent = rest, !.pc = "raised"]

\* the id Telegram gave the message a request brings, and the id of the
\* bot's reply to it
MessageId(r) == IF r = "r1" THEN 1 ELSE 2
ReplyId(r) == 10 + MessageId(r)

\* line 68: the update is an edit of a message the bot has answered
HasReplies(edited, replies) == edited # 0 /\ edited \in DOMAIN replies

\* line 79: del context.user_data['bot_messages'][original_message_id]
Without(replies, id) == [k \in DOMAIN replies \ {id} |-> replies[k]]

\* lines 55-108: the message arrives, passes the group gate and is announced;
\* update_id is the update a webhook post brought, 0 when there was no post;
\* edited is the id of the message when the update is an edit of it, else 0.
\* For an edit the bot's replies to the message are deleted first (67-79)
Arrives(r, u, inbound, update_id, edited) ==
    /\ req[r].pc = "idle"
    /\ r = "r1" => u = "u1"
    /\ r = "r2" => req["r1"].pc # "idle"
    /\ inbound \in Inbound
    /\ LET message_id == IF edited # 0 THEN edited ELSE MessageId(r)
       IN  IF PassesGate(inbound[1], inbound[2])
           THEN LET message_text == MessageText(inbound[1], inbound[2])
                IN  /\ req' = [req EXCEPT ![r] =
                                  [@ EXCEPT !.pc = "context", !.user = u,
                                            !.chat = inbound[1], !.text = inbound[2],
                                            !.message_text = message_text,
                                            !.update_id = update_id,
                                            !.message_id = message_id,
                                            !.thinking = TRUE,
                                            !.sent = <<ThinkingNotice>>]]
                    /\ last_queries' = [last_queries EXCEPT ![u] = message_text]
           ELSE /\ req' = [req EXCEPT ![r] =
                              [@ EXCEPT !.pc = "ignored", !.user = u,
                                        !.update_id = update_id,
                                        !.message_id = message_id,
                                        !.chat = inbound[1], !.text = inbound[2]]]
                /\ UNCHANGED last_queries
    /\ IF HasReplies(edited, bot_messages[u])
       THEN /\ deleted' = deleted \cup {bot_messages[u][edited][i] :
                                            i \in 1..Len(bot_messages[u][edited])}
            /\ bot_messages' = [bot_messages EXCEPT ![u] = Without(@, edited)]
       ELSE UNCHANGED <<bot_messages, deleted>>
    /\ UNCHANGED <<history, preference, image_history, document_history,
                   breakerVars, callerVars, detectVars, factoryVars,
                   limiterVars, windowVars, filterVars, retryVars,
                   deepseekVars, managerVars, splitVars, updateVars>>

\* a new message arrives
Received(r, u, inbound, update_id) == Arrives(r, u, inbound, update_id, 0)

Receive(r, u, inbound) ==
    /\ Received(r, u, inbound, 0)
    /\ UNCHANGED webhookVars

\* the user edits the message with the id edited
ReceiveEdit(r, u, inbound, edited) ==
    /\ Arrives(r, u, inbound, 0, edited)
    /\ UNCHANGED webhookVars

\* lines 110-164: the stored history is read, the prompt is built from the
\* attachment histories and the message is classified; on the image path the
\* "Thinking..." message is deleted and a status message takes its place
ReadContext(r) ==
    /\ req[r].pc = "context"
    /\ LET u == req[r].user
           message_text == req[r].message_text
           detected == Detected[message_text]
           image_path == TakesImagePath(detected)
       IN  req' = [req EXCEPT ![r] =
                     [@ EXCEPT
                        !.user_context = FilterContext(get_user_context(history[u])),
                        !.enhanced_prompt =
                            EnhancedPrompt(message_text, image_history[u],
                                           document_history[u]),
                        !.image_prompt = IF image_path THEN detected[2] ELSE <<>>,
                        !.thinking = ~image_path,
                        !.sent = IF image_path THEN <<GeneratingNotice>> ELSE @,
                        !.readAfter =
                            {q \in Reqs \ {r} :
                                /\ req[q].user = u
                                /\ req[q].pc \in {"imagegen", "preference",
                                                  "acquire", "model",
                                                  "deliver"}},
                        !.pc = IF image_path THEN "imagegen" ELSE "preference"]]
    /\ UNCHANGED <<storeVars, breakerVars, callerVars, detectVars, factoryVars, webhookVars,
                   limiterVars, windowVars, filterVars, retryVars,
                   deepseekVars, editVars, managerVars, splitVars, updateVars>>

\* line 111 raises: the handler's outermost except clause answers (355-365)
ReadContextFails(r) ==
    /\ req[r].pc = "context"
    /\ req' = [req EXCEPT ![r] =
                 InternalError([@ EXCEPT !.storeFailed = TRUE])]
    /\ UNCHANGED <<storeVars, breakerVars, callerVars, detectVars, factoryVars, webhookVars,
                   limiterVars, windowVars, filterVars, retryVars,
                   deepseekVars, editVars, managerVars, splitVars, updateVars>>

\* line 111 raises and the reply_text of the outermost except clause (362)
\* raises too: the exception leaves the handler
ErrorNoticeFails(r) ==
    /\ req[r].pc = "context"
    /\ req' = [req EXCEPT ![r] =
                 [@ EXCEPT !.thinking = FALSE, !.sent = <<>>,
                           !.storeFailed = TRUE,
                           !.pc = "raised"]]
    /\ UNCHANGED <<storeVars, breakerVars, callerVars, detectVars, factoryVars, webhookVars,
                   limiterVars, windowVars, filterVars, retryVars,
                   deepseekVars, editVars, managerVars, splitVars, updateVars>>

\* lines 166-196: generate_image_with_imagen3 returned an image
ImageGenerated(r) ==
    /\ req[r].pc = "imagegen"
    /\ LET u == req[r].user
           turns == GeneratedImageTurns(req[r].image_prompt)
       IN  /\ history' = [history EXCEPT ![u] =
                             add_to_context(add_to_context(@, turns[1]), turns[2])]
           /\ req' = [req EXCEPT ![r] =
                        [@ EXCEPT
                           !.calls = Append(@, Call("imagen", req[r].image_prompt, <<>>)),
                           !.sent = <<<<"Generated image of: ">> \o req[r].image_prompt>>,
                           !.appended = turns,
                           !.pc = "image"]]
    /\ UNCHANGED <<preference, image_history, document_history, last_queries,
                   breakerVars, callerVars, detectVars, factoryVars, webhookVars,
                   limiterVars, windowVars, filterVars, retryVars,
                   deepseekVars, editVars, managerVars, splitVars, updateVars>>

\* lines 197-207: it returned nothing (NoImageNotice) or raised
\* (ImageErrorNotice); the status message is edited and the text path follows
ImageFails(r, notice) ==
    /\ req[r].pc = "imagegen"
    /\ req' = [req EXCEPT ![r] =
                 [@ EXCEPT
                    !.calls = Append(@, Call("imagen", req[r].image_prompt, <<>>)),
                    !.sent = <<notice>>,
                    !.pc = "preference"]]
    /\ UNCHANGED <<storeVars, breakerVars, callerVars, detectVars, factoryVars, webhookVars,
                   limiterVars, windowVars, filterVars, retryVars,
                   deepseekVars, editVars, managerVars, splitVars, updateVars>>

\* thinking_message.delete() followed by one more message (252-273, 277-338).
\* Telegram refuses to delete a message that is already deleted, so after the
\* image path the delete raises; it also refuses a MarkdownV2 text that does
\* not parse.  Either way the outermost except clause answers instead
\* (355-365); done is the position reached when both calls succeed, and
\* markdown tells whether the message is sent with parse_mode='MarkdownV2'.
Answer(request, message, markdown, done) ==
    IF request.thinking /\ (markdown => ParsesAsMarkdownV2(message))
    THEN [request EXCEPT
            !.thinking = FALSE,
            !.sent = Append(SelectSeq(@, LAMBDA m : m # ThinkingNotice), message),
            !.pc = done]
    ELSE InternalError(request)

\* lines 213-250: the preferred model is read, the style guidelines are put
\* before the prompt and the call to the backend begins.  For Gemini,
\* generate_response enters call_with_circuit_breaker, which reads the failure
\* count and returns None at once when the circuit is open (126-133);
\* otherwise _generate_response_impl waits for the rate limiter and hands the
\* conversation recorded here to the backend (gemini_api.py 359-439).  The
\* DeepSeek call goes from the handler to deepseek_llm.generate_text at once
\* (227-241).
ResolveModel(r, read) ==
    /\ req[r].pc = "preference"
    /\ read \in {get_user_preference(preference[req[r].user]), "error"}
    /\ LET preferred_model == PreferredModel(read)
           prompt == apply_response_guidelines(req[r].enhanced_prompt, preferred_model)
           base == [req[r] EXCEPT !.read = read,
                                  !.preferred_model = preferred_model,
                                  !.prompt = prompt,
                                  !.fails = failures["api"]]
       IN  req' = [req EXCEPT ![r] =
                IF Backend(preferred_model) = "deepseek"
                THEN [base EXCEPT
                        !.calls = Append(@, Call("deepseek", prompt, req[r].user_context)),
                        !.pc = "model"]
                ELSE IF CircuitOpen(failures["api"], last_failure["api"], now)
                     THEN Answer([base EXCEPT !.failure = "circuit_open"],
                                 NoResponseNotice, TRUE, "failed")
                     ELSE [base EXCEPT
                             !.calls = Append(@, Call("gemini", prompt,
                                           GeminiConversation(prompt,
                                               GeminiContext(req[r].user_context)))),
                             !.admitted = TRUE,
                             !.pc = "acquire"]]
    /\ UNCHANGED <<storeVars, breakerVars, callerVars, detectVars, factoryVars, webhookVars,
                   limiterVars, windowVars, filterVars, retryVars,
                   deepseekVars, editVars, managerVars, splitVars, updateVars>>

\* gemini_api.py 359: rate_limiter.acquire() completes and the request to the
\* Gemini backend is made
Acquire(r) ==
    /\ req[r].pc = "acquire"
    /\ req' = [req EXCEPT ![r] = [@ EXCEPT !.acquired = TRUE, !.pc = "model"]]
    /\ UNCHANGED <<storeVars, breakerVars, callerVars, detectVars, factoryVars, webhookVars,
                   limiterVars, windowVars, filterVars, retryVars,
                   deepseekVars, editVars, managerVars, splitVars, updateVars>>

\* gemini_api.py 359, 145-150, 353-355: rate_limiter.acquire() raises outside
\* the try block of _generate_response_impl; the circuit breaker counts the
\* failure and generate_response returns its apology as the reply
AcquireRaises(r) ==
    /\ req[r].pc = "acquire"
    /\ failures' = [failures EXCEPT !["api"] = CountAfterFailure(req[r].fails)]
    /\ last_failure' = [last_failure EXCEPT !["api"] = now]
    /\ lastFailAt' = [lastFailAt EXCEPT !["api"] = now]
    /\ req' = [req EXCEPT ![r] =
                 [@ EXCEPT !.response = TextResponse(ApologyText),
                           !.failure = "wrapper_exception",
                           !.pc = "deliver"]]
    /\ UNCHANGED <<storeVars, now, callerVars, detectVars, factoryVars, webhookVars,
                   limiterVars, windowVars, filterVars, retryVars,
                   deepseekVars, editVars, managerVars, splitVars, updateVars>>

\* lines 244-250 and 267-273, gemini_api.py 137-143 and 441-446: the backend
\* answers with a text, an empty text or nothing
ModelReturns(r, response) ==
    /\ req[r].pc = "model"
    /\ failures' =
          IF req[r].calls[Len(req[r].calls)].backend = "gemini"
          THEN [failures EXCEPT !["api"] =
                   CountAfterResult(Truthy(response), req[r].fails, @)]
          ELSE failures
    /\ req' = [req EXCEPT ![r] =
                 IF response.none
                 THEN Answer([@ EXCEPT !.response = response, !.failure = "null"],
                             NoResponseNotice, TRUE, "failed")
                 ELSE [@ EXCEPT !.response = response,
                                !.failure = IF response.text = <<>> THEN "empty"
                                                                    ELSE "no",
                                !.pc = "deliver"]]
    /\ UNCHANGED <<storeVars, last_failure, now, lastFailAt, callerVars, detectVars, factoryVars, webhookVars,
                   limiterVars, windowVars, filterVars, retryVars,
                   deepseekVars, editVars, managerVars, splitVars, updateVars>>

\* the backend call raises: _generate_response_impl turns it into None
\* (gemini_api.py 448-452); the DeepSeek call lets it through to line 258
ModelRaises(r) ==
    /\ req[r].pc = "model"
    /\ req' = [req EXCEPT ![r] =
                 Answer([@ EXCEPT !.failure = "exception"],
                        IF req[r].calls[Len(req[r].calls)].backend = "gemini"
                        THEN NoResponseNotice ELSE ErrorNotice,
                        TRUE, "failed")]
    /\ UNCHANGED <<storeVars, breakerVars, callerVars, detectVars, factoryVars, webhookVars,
                   limiterVars, windowVars, filterVars, retryVars,
                   deepseekVars, editVars, managerVars, splitVars, updateVars>>

\* lines 251-257: asyncio.wait_for gives up on the call
ModelTimesOut(r) ==
    /\ req[r].pc \in {"acquire", "model"}
    /\ req' = [req EXCEPT ![r] =
                 Answer([@ EXCEPT !.failure = "timeout"], TimeoutNotice, TRUE, "failed")]
    /\ UNCHANGED <<storeVars, breakerVars, callerVars, detectVars, factoryVars, webhookVars,
                   limiterVars, windowVars, filterVars, retryVars,
                   deepseekVars, editVars, managerVars, splitVars, updateVars>>

\* lines 275-354: the reply is sent and the two turns are stored
Deliver(r) ==
    /\ req[r].pc = "deliver"
    /\ LET u == req[r].user
           response == req[r].response
           chunk == IF response.text = <<>> THEN NoChunkText ELSE response.text
           message == <<ModelIndicator(req[r].preferred_model), "\n\n">> \o chunk
           answered == Answer(req[r], message, FALSE, "replied")
           turns == << StoredUserTurn(req[r].message_text, req[r].prompt),
                       StoredAssistantTurn(response.text) >>
       IN  IF answered.pc = "replied" /\ StoresTurns(response)
           THEN /\ history' = [history EXCEPT ![u] =
                                  add_to_context(add_to_context(@, turns[1]), turns[2])]
                /\ bot_messages' = [bot_messages EXCEPT ![u] =
                                       (req[r].message_id :> <<ReplyId(r)>>) @@ @]
                /\ req' = [req EXCEPT ![r] = [answered EXCEPT !.appended = turns]]
           ELSE /\ req' = [req EXCEPT ![r] = answered]
                /\ UNCHANGED <<history, bot_messages>>
    /\ UNCHANGED deleted
    /\ UNCHANGED <<preference, image_history, document_history, last_queries,
                   breakerVars, callerVars, detectVars, factoryVars, webhookVars,
                   limiterVars, windowVars, filterVars, retryVars,
                   deepseekVars, managerVars, splitVars, updateVars>>

\* lines 277-343 when no chunk can be sent: both reply_text attempts raise
\* (302-334), the clause at 336-338 skips the chunk, and the turns are stored
DeliverFails(r) ==
    /\ req[r].pc = "deliver"
    /\ req[r].thinking
    /\ LET u == req[r].user
           response == req[r].response
           unsent == [req[r] EXCEPT
                        !.thinking = FALSE,
                        !.sent = SelectSeq(@, LAMBDA m : m # ThinkingNotice),
                        !.pc = "undelivered"]
           turns == << StoredUserTurn(req[r].message_text, req[r].prompt),
                       StoredAssistantTurn(response.text) >>
       IN  IF StoresTurns(response)
           THEN /\ history' = [history EXCEPT ![u] =
                                  add_to_context(add_to_context(@, turns[1]), turns[2])]
                /\ bot_messages' = [bot_messages EXCEPT ![u] =
                                       (req[r].message_id :> <<>>) @@ @]
                /\ req' = [req EXCEPT ![r] = [unsent EXCEPT !.appended = turns]]
           ELSE /\ req' = [req EXCEPT ![r] = unsent]
                /\ UNCHANGED <<history, bot_messages>>
    /\ UNCHANGED deleted
    /\ UNCHANGED <<preference, image_history, document_history, last_queries,
                   breakerVars, callerVars, detectVars, factoryVars, webhookVars,
                   limiterVars, windowVars, filterVars, retryVars,
                   deepseekVars, managerVars, splitVars, updateVars>>

\* the coroutine returns and its locals are gone
Finished == {"ignored", "error", "raised", "image", "failed", "replied",
             "undelivered"}

Return(r) ==
    /\ req[r].pc \in Finished
    /\ req' = [req EXCEPT ![r] = [IdleRequest EXCEPT !.pc = "returned"]]
    /\ UNCHANGED <<storeVars, breakerVars, callerVars, detectVars, factoryVars, webhookVars,
                   limiterVars, windowVars, filterVars, retryVars,
                   deepseekVars, editVars, managerVars, splitVars, updateVars>>

\* no other request is in flight
Alone(r) == \A q \in Reqs \ {r} : req[q].pc \in {"idle", "returned"}

\* the steps of a request after its message arrived
Serve(r) ==
    \/ ReadContext(r)
    \/ ReadContextFails(r)
    \/ ErrorNoticeFails(r)
    \/ ImageGenerated(r)
    \/ \E notice \in {NoImageNotice, ImageErrorNotice} : ImageFails(r, notice)
    \/ \E read \in StoredModels \cup {"None", "error"} : ResolveModel(r, read)
    \/ Acquire(r)
    \/ AcquireRaises(r)
    \/ \E response \in Replies : ModelReturns(r, response)
    \/ ModelRaises(r)
    \/ ModelTimesOut(r)
    \/ Deliver(r)
    \/ DeliverFails(r)
    \/ Return(r)

(***************************************************************************)
(* call_with_circuit_breaker (gemini_api.py, 124-150) under direct callers *)
(***************************************************************************)

\* the APIs a caller uses: both generate text, one also generates images
\* (264-343) and the other also analyses them
CallerApis(c) ==
    IF c = "c1" THEN {"api", "image_generation"} ELSE {"api", "image_analysis"}

InFlight(api) == {c \in Callers : cb[c].pc = "calling" /\ cb[c].api = api}

\* lines 126-133: the counters are read; with the circuit open the call
\* returns None at once, otherwise api_function is awaited
CallBegin(c, api) ==
    /\ cb[c].pc # "calling"
    /\ api \in CallerApis(c)
    /\ ncalls < MaxCalls
    /\ ncalls' = ncalls + 1
    /\ LET open == CircuitOpen(failures[api], last_failure[api], now)
           entry == [ pc |-> IF open THEN "returned" ELSE "calling",
                      api |-> api,
                      failures |-> failures[api],
                      tripped |-> /\ streak[api] >= circuit_breaker_threshold
                                  /\ now - lastFailAt[api] < circuit_breaker_timeout,
                      probe |-> opened[api],
                      alone |-> InFlight(api) = {},
                      last |-> IF open THEN "short" ELSE "" ]
       IN  cb' = [d \in Callers |->
                    IF d = c THEN entry
                    ELSE IF d \in InFlight(api) /\ ~open
                         THEN [cb[d] EXCEPT !.alone = FALSE]
                         ELSE cb[d]]
           /\ failures' = IF open
                          THEN [failures EXCEPT ![api] = CountAfterRefusal(@)]
                          ELSE failures
    /\ UNCHANGED <<storeVars, req, last_failure, now, lastFailAt, streak, opened,
                   detectVars, factoryVars, webhookVars, limiterVars,
                   windowVars, filterVars, retryVars, deepseekVars, editVars,
                   managerVars, splitVars, updateVars>>

\* lines 137-143: api_function returned a result, truthy or not
CallReturns(c, truthy) ==
    /\ cb[c].pc = "calling"
    /\ LET api == cb[c].api
       IN  /\ failures' = [failures EXCEPT ![api] =
                              CountAfterResult(truthy, cb[c].failures, @)]
           /\ streak' = [streak EXCEPT ![api] = 0]
           /\ opened' = [opened EXCEPT ![api] = @ /\ ~truthy]
    /\ cb' = [cb EXCEPT ![c] =
                [@ EXCEPT !.pc = "returned",
                          !.last = IF truthy THEN "result" ELSE "nothing"]]
    /\ UNCHANGED <<storeVars, req, last_failure, now, lastFailAt, ncalls, detectVars, factoryVars, webhookVars,
                   limiterVars, windowVars, filterVars, retryVars,
                   deepseekVars, editVars, managerVars, splitVars, updateVars>>

\* lines 145-150: api_function raised
CallFails(c) ==
    /\ cb[c].pc = "calling"
    /\ LET api == cb[c].api
           count == CountAfterFailure(cb[c].failures)
       IN  /\ failures' = [failures EXCEPT ![api] = count]
           /\ last_failure' = [last_failure EXCEPT ![api] = now]
           /\ lastFailAt' = [lastFailAt EXCEPT ![api] = now]
           /\ streak' = [streak EXCEPT ![api] = IF cb[c].alone THEN @ + 1 ELSE 0]
           /\ opened' = [opened EXCEPT ![api] =
                            @ \/ count >= circuit_breaker_threshold]
    /\ cb' = [cb EXCEPT ![c] = [@ EXCEPT !.pc = "returned", !.last = "raised"]]
    /\ UNCHANGED <<storeVars, req, now, ncalls, detectVars, factoryVars, webhookVars,
                   limiterVars, filterVars, retryVars, deepseekVars, editVars,
                   managerVars, splitVars, updateVars>>

CallRaises(c) == CallFails(c) /\ UNCHANGED failedAt

\* the same step with the time of the failure written down
CallRaisesAt(c) ==
    /\ CallFails(c)
    /\ failedAt' = [failedAt EXCEPT ![cb[c].api] = Append(@, now)]

\* time passes, half a window at a time
Tick ==
    /\ now < MaxNow
    /\ now' = now + 150
    /\ UNCHANGED <<storeVars, req, failures, last_failure, lastFailAt,
                   callerVars, detectVars, factoryVars, webhookVars,
                   limiterVars, windowVars, filterVars, retryVars,
                   deepseekVars, editVars, managerVars, splitVars, updateVars>>

(***************************************************************************)
(* detect_image_generation_request applied to one text                     *)
(***************************************************************************)

Chars_please == <<"p","l","e","a","s","e"," ">>
Chars_a_cat == <<" ","a"," ","c","a","t">>
Chars_A_Cat == <<" ","A"," ","C","a","t">>
Chars_of_a_cat == <<" ","o","f"," ","a"," ","c","a","t">>
Chars_colon_cats == <<" ",":"," ","w","i","t","h"," ","c","a","t","s">>

RECURSIVE Blanks(_)
Blanks(n) == IF n = 0 THEN <<>> ELSE <<" ">> \o Blanks(n - 1)

\* the texts given to the detector: up to MaxLead blanks, an opening, a
\* trigger phrase or none, and what follows it
DetectInputs ==
    { Blanks(n) \o opening \o phrase \o rest :
        n \in 0..MaxLead,
        opening \in {<<>>, Chars_please},
        phrase \in {image_triggers[i] : i \in DOMAIN image_triggers} \cup {<<>>},
        rest \in {<<>>, Chars_a_cat, Chars_A_Cat, Chars_of_a_cat, Chars_colon_cats} }

Detect ==
    /\ dpc = "input"
    /\ dpc' = "done"
    /\ dresult' = detect_image_generation_request(dtext)
    /\ UNCHANGED <<storeVars, req, breakerVars, callerVars, dtext, factoryVars, webhookVars,
                   limiterVars, windowVars, filterVars, retryVars,
                   deepseekVars, editVars, managerVars, splitVars, updateVars>>

(***************************************************************************)
(* get_model_handler (factory.py, 16-58) called from several threads: the  *)
(* method holds no lock, so the threads interleave between its statements  *)
(***************************************************************************)

\* line 36: model_name not in cls._handlers
GetBegin(c, model_name, supplied) ==
    /\ fc[c].pc \in {"idle", "returned", "failed"}
    /\ fc' = [fc EXCEPT ![c] =
                [ pc |-> IF handlers[model_name] = NoHandler THEN "create"
                                                              ELSE "return",
                  model_name |-> model_name,
                  supplied |-> supplied,
                  result |-> NoHandler ]]
    /\ UNCHANGED <<storeVars, req, breakerVars, callerVars, detectVars,
                   webhookVars, handlers, constructed, limiterVars, windowVars,
                   filterVars, retryVars, deepseekVars, editVars, managerVars,
                   splitVars, updateVars>>

\* lines 37-56: the handler is constructed and stored, or ValueError is raised
GetCreate(c) ==
    /\ fc[c].pc = "create"
    /\ LET model_name == fc[c].model_name
           instance == Handler(model_name, c, fc[c].supplied)
       IN  IF Constructs(model_name, fc[c].supplied)
           THEN /\ constructed' = constructed \cup {instance}
                /\ handlers' = [handlers EXCEPT ![model_name] = instance]
                /\ fc' = [fc EXCEPT ![c] = [@ EXCEPT !.pc = "return"]]
           ELSE /\ fc' = [fc EXCEPT ![c] = [@ EXCEPT !.pc = "failed"]]
                /\ UNCHANGED <<handlers, constructed>>
    /\ UNCHANGED <<storeVars, req, breakerVars, callerVars, detectVars, webhookVars,
                   limiterVars, windowVars, filterVars, retryVars,
                   deepseekVars, editVars, managerVars, splitVars, updateVars>>

\* line 58: return cls._handlers[model_name]
GetReturn(c) ==
    /\ fc[c].pc = "return"
    /\ fc' = [fc EXCEPT ![c] =
                [@ EXCEPT !.pc = "returned", !.result = handlers[fc[c].model_name]]]
    /\ UNCHANGED <<storeVars, req, breakerVars, callerVars, detectVars,
                   webhookVars, handlers, constructed, limiterVars, windowVars,
                   filterVars, retryVars, deepseekVars, editVars, managerVars,
                   splitVars, updateVars>>

(***************************************************************************)
(* The webhook (app.py, 327-369)                                           *)
(***************************************************************************)

\* webhook posts in one run
MaxPosts == 2

\* the updates Telegram posts: update_id -> chat type and text
Updates == [i \in {1, 2} |-> IF i = 1 THEN <<"private", M_hi>>
                                      ELSE <<"private", M_draw>>]

\* line 357: background_tasks.add_task(self.process_update, update_data)
add_task(queue, update_id) == Append(queue, update_id)

InitWebhook ==
    /\ tasks = <<>>
    /\ posted = 0
    /\ dispatched = [i \in DOMAIN Updates |-> 0]
    /\ escaped = <<>>

\* lines 351-364, webhook_handler: Telegram posts an update, for the first
\* time or once more; the body is read, the task is added and 200 is returned
webhook_handler(update_id) ==
    /\ posted < MaxPosts
    /\ posted' = posted + 1
    /\ tasks' = add_task(tasks, update_id)
    /\ UNCHANGED <<storeVars, req, breakerVars, callerVars, detectVars,
                   factoryVars, dispatched, limiterVars, windowVars,
                   filterVars, retryVars, deepseekVars, editVars, managerVars,
                   splitVars, updateVars>>

\* lines 327-337, process_update: the oldest task builds the Update and hands
\* it to application.process_update, which runs handle_text_message
process_update(r) ==
    /\ tasks # <<>>
    /\ LET update_id == Head(tasks)
       IN  /\ Received(r, "u1", Updates[update_id], update_id)
           /\ dispatched' = [dispatched EXCEPT ![update_id] = @ + 1]
    /\ tasks' = Tail(tasks)
    /\ UNCHANGED posted

\* where process_update may fail: application.initialize() or start()
\* (329-331), Update.de_json (333), the task group around
\* application.process_update (336-337)
Stages == {"start", "decode", "dispatch"}

\* line 333: the local variable update is bound once de_json has returned
UpdateBound(stage) == stage = "dispatch"

\* lines 339-346: the except clause logs the error and evaluates
\* hasattr(update, "message"); with update unbound that raises
\* UnboundLocalError, which leaves process_update
ExceptClause(stage) ==
    IF UpdateBound(stage) THEN "none" ELSE "UnboundLocalError"

\* lines 327-346, process_update when a stage raises
process_update_fails(stage) ==
    /\ tasks # <<>>
    /\ tasks' = Tail(tasks)
    /\ escaped' = IF ExceptClause(stage) = "none" THEN escaped
                  ELSE Append(escaped, [update_id |-> Head(tasks), stage |-> stage,
                                        exception |-> ExceptClause(stage)])
    /\ UNCHANGED <<storeVars, req, breakerVars, callerVars, detectVars,
                   factoryVars, posted, dispatched, limiterVars, windowVars,
                   filterVars, retryVars, deepseekVars, editVars, managerVars,
                   splitVars>>

(***************************************************************************)
(* The semaphore of the attachment handlers (message_handlers.py, 793-963) *)
(* next to the model calls of the text handler (text_handlers.py, 226-250) *)
(***************************************************************************)

\* line 793: asyncio.Semaphore(20)
request_limit == 20

\* requests in flight at one time
MaxInFlight == 21

AttachmentKinds == {"document", "image"}

InFlightNow ==
    text_calls + waiting["document"] + waiting["image"]
        + inside["document"] + inside["image"]

InitLimiter ==
    /\ permits = request_limit
    /\ waiting = [k \in AttachmentKinds |-> 0]
    /\ inside = [k \in AttachmentKinds |-> 0]
    /\ text_calls = 0

\* lines 797-805 and 884-885, 887-895 and 961-963: handle_document or
\* handle_image creates its task, which comes to "async with"
AttachmentArrives(kind) ==
    /\ InFlightNow < MaxInFlight
    /\ waiting' = [waiting EXCEPT ![kind] = @ + 1]
    /\ UNCHANGED <<storeVars, req, breakerVars, callerVars, detectVars,
                   factoryVars, webhookVars, permits, inside, text_calls,
                   windowVars, filterVars, retryVars, deepseekVars, editVars,
                   managerVars, splitVars, updateVars>>

\* lines 808 and 897: Semaphore.acquire() succeeds while the value is positive
EnterLimiter(kind) ==
    /\ waiting[kind] > 0
    /\ permits > 0
    /\ permits' = permits - 1
    /\ waiting' = [waiting EXCEPT ![kind] = @ - 1]
    /\ inside' = [inside EXCEPT ![kind] = @ + 1]
    /\ UNCHANGED <<storeVars, req, breakerVars, callerVars, detectVars,
                   factoryVars, webhookVars, text_calls, windowVars,
                   filterVars, retryVars, deepseekVars, editVars, managerVars,
                   splitVars, updateVars>>

\* lines 809-864 and 898-947: the block ends, by its last statement or by an
\* exception, and the semaphore is released
LeaveLimiter(kind) ==
    /\ inside[kind] > 0
    /\ permits' = permits + 1
    /\ inside' = [inside EXCEPT ![kind] = @ - 1]
    /\ UNCHANGED <<storeVars, req, breakerVars, callerVars, detectVars,
                   factoryVars, webhookVars, waiting, text_calls, windowVars,
                   filterVars, retryVars, deepseekVars, editVars, managerVars,
                   splitVars, updateVars>>

\* text_handlers.py 226-250: a text request begins its model call; the text
\* handler does not use the semaphore
TextCallBegins ==
    /\ InFlightNow < MaxInFlight
    /\ text_calls' = text_calls + 1
    /\ UNCHANGED <<storeVars, req, breakerVars, callerVars, detectVars,
                   factoryVars, webhookVars, permits, waiting, inside,
                   windowVars, filterVars, retryVars, deepseekVars, editVars,
                   managerVars, splitVars, updateVars>>

\* text_handlers.py 226-257: the call returns, raises or times out
TextCallEnds ==
    /\ text_calls > 0
    /\ text_calls' = text_calls - 1
    /\ UNCHANGED <<storeVars, req, breakerVars, callerVars, detectVars,
                   factoryVars, webhookVars, permits, waiting, inside,
                   windowVars, filterVars, retryVars, deepseekVars, editVars,
                   managerVars, splitVars, updateVars>>

\* the text API has not failed yet, or its latest calls failed and one more
\* failure opens the circuit
Init ==
    /\ InitStore
    /\ InitRequests
    /\ \E n \in {0, circuit_breaker_threshold - 1} :
          failures = [a \in ApiNames |-> IF a = "api" THEN n ELSE 0]
    /\ last_failure = [a \in ApiNames |-> 0]
    /\ lastFailAt = [a \in ApiNames |-> 0]
    /\ now = 0
    /\ InitCallers
    /\ InitDetect
    /\ InitFactory
    /\ InitWebhook
    /\ InitLimiter
    /\ InitFilter
    /\ InitRetry
    /\ InitDeepSeek
    /\ InitEdit
    /\ InitManager
    /\ InitSplit

\* Spec: the messages of Inbound arrive one after the other, each after the
\* request before it has returned, within one window of the circuit breaker
Next ==
    \/ \E r \in Reqs, u \in Users, inbound \in Inbound :
          Alone(r) /\ Receive(r, u, inbound)
    \/ \E r \in Reqs : Serve(r)

Spec == Init /\ [][Next]_vars

\* SpecRace: two messages arrive while the other request may be in flight
RaceInbound == { <<"private", M_hi>>, <<"private", M_draw>> }

NextRace ==
    \/ \E r \in Reqs, u \in Users, inbound \in RaceInbound : Receive(r, u, inbound)
    \/ \E r \in Reqs : Serve(r)

SpecRace == Init /\ [][NextRace]_vars

\* SpecWebhook: the messages come as webhook posts, each update once or more
\* often, and are handled one after the other
NextWebhook ==
    \/ \E update_id \in DOMAIN Updates : webhook_handler(update_id)
    \/ \E r \in Reqs : Alone(r) /\ process_update(r)
    \/ \E r \in Reqs : Serve(r)

SpecWebhook == Init /\ [][NextWebhook]_vars

\* SpecBreaker: callers use call_with_circuit_breaker directly while time passes
InitBreakerSpec ==
    /\ history = [u \in Users |-> <<>>]
    /\ image_history = [u \in Users |-> <<>>]
    /\ document_history = [u \in Users |-> <<>>]
    /\ preference = [u \in Users |-> "unset"]
    /\ last_queries = [u \in Users |-> <<>>]
    /\ InitRequests
    /\ InitBreaker
    /\ InitCallers
    /\ InitDetect
    /\ InitFactory
    /\ InitWebhook
    /\ InitLimiter
    /\ InitFilter
    /\ InitRetry
    /\ InitDeepSeek
    /\ InitEdit
    /\ InitManager
    /\ InitSplit

NextBreaker ==
    \/ \E c \in Callers, api \in ApiNames : CallBegin(c, api)
    \/ \E c \in Callers, truthy \in BOOLEAN : CallReturns(c, truthy)
    \/ \E c \in Callers : CallRaises(c)
    \/ Tick

SpecBreaker == InitBreakerSpec /\ [][NextBreaker]_vars

\* SpecWindow: the callers use the text API only and the time of every failed
\* call is written down
NextWindow ==
    \/ \E c \in Callers : CallBegin(c, "api")
    \/ \E c \in Callers, truthy \in BOOLEAN : CallReturns(c, truthy)
    \/ \E c \in Callers : CallRaisesAt(c)
    \/ Tick

SpecWindow == InitBreakerSpec /\ [][NextWindow]_vars

\* SpecDetect: the detector is given one of DetectInputs
InitDetectSpec ==
    /\ history = [u \in Users |-> <<>>]
    /\ image_history = [u \in Users |-> <<>>]
    /\ document_history = [u \in Users |-> <<>>]
    /\ preference = [u \in Users |-> "unset"]
    /\ last_queries = [u \in Users |-> <<>>]
    /\ InitRequests
    /\ InitBreaker
    /\ InitCallers
    /\ dpc = "input"
    /\ dtext \in DetectInputs
    /\ dresult = <<FALSE, <<>>>>
    /\ InitFactory
    /\ InitWebhook
    /\ InitLimiter
    /\ InitFilter
    /\ InitRetry
    /\ InitDeepSeek
    /\ InitEdit
    /\ InitManager
    /\ InitSplit

SpecDetect == InitDetectSpec /\ [][Detect]_vars

\* SpecFactory: two threads ask the factory for handlers
NextFactory ==
    \/ \E c \in Callers, model_name \in ModelNames, supplied \in BOOLEAN :
          GetBegin(c, model_name, supplied)
    \/ \E c \in Callers : GetCreate(c)
    \/ \E c \in Callers : GetReturn(c)

SpecFactory == InitBreakerSpec /\ [][NextFactory]_vars

\* SpecFilter: should_ignore_update is applied to one update
InitFilterSpec ==
    /\ history = [u \in Users |-> <<>>]
    /\ image_history = [u \in Users |-> <<>>]
    /\ document_history = [u \in Users |-> <<>>]
    /\ preference = [u \in Users |-> "unset"]
    /\ last_queries = [u \in Users |-> <<>>]
    /\ InitRequests
    /\ InitBreaker
    /\ InitCallers
    /\ InitDetect
    /\ InitFactory
    /\ InitWebhook
    /\ InitLimiter
    /\ fpc = "input"
    /\ fupdate \in FilterUpdates
    /\ fusername \in {<<>>, GivenUsername}
    /\ fignore = FALSE
    /\ InitRetry
    /\ InitDeepSeek
    /\ InitEdit
    /\ InitManager
    /\ InitSplit

SpecFilter == InitFilterSpec /\ [][Filter]_vars

\* SpecRetry: generate_content_with_retry is called once
InitRetrySpec ==
    /\ history = [u \in Users |-> <<>>]
    /\ image_history = [u \in Users |-> <<>>]
    /\ document_history = [u \in Users |-> <<>>]
    /\ preference = [u \in Users |-> "unset"]
    /\ last_queries = [u \in Users |-> <<>>]
    /\ InitRequests
    /\ InitBreaker
    /\ InitCallers
    /\ InitDetect
    /\ InitFactory
    /\ InitWebhook
    /\ InitLimiter
    /\ InitFilter
    /\ \E max_retries \in 0..MaxRetries :
          retry = [IdleRetry EXCEPT !.pc = "loop", !.max_retries = max_retries]
    /\ InitDeepSeek
    /\ InitEdit
    /\ InitManager
    /\ InitSplit

NextRetry ==
    \/ \E result \in {NoError} \cup BackendErrors : RetryAttempt(result)
    \/ RetryRangeEmpty

SpecRetry == InitRetrySpec /\ [][NextRetry]_vars

\* SpecEdit: messages arrive one after the other; the second update may be
\* an edit of the first message by its author
EditInbound == RaceInbound \cup { <<"group", M_group>>, <<"group", M_hi>> }

NextEdit ==
    \/ \E r \in Reqs, u \in Users, inbound \in EditInbound :
          Alone(r) /\ Receive(r, u, inbound)
    \/ \E inbound \in EditInbound :
          /\ Alone("r2")
          /\ ReceiveEdit("r2", req["r1"].user, inbound, MessageId("r1"))
    \/ \E r \in Reqs : Serve(r)

SpecEdit == Init /\ [][NextEdit]_vars

\* SpecManager: a caller adds messages and reads contexts; u1 may have a
\* document in the collection, empty or with one message, u2 has none
StoredMessages == {Turn("user", <<"q">>), Turn("assistant", <<"a">>)}

InitManagerSpec ==
    /\ history = [u \in Users |-> <<>>]
    /\ image_history = [u \in Users |-> <<>>]
    /\ document_history = [u \in Users |-> <<>>]
    /\ preference = [u \in Users |-> "unset"]
    /\ last_queries = [u \in Users |-> <<>>]
    /\ InitRequests
    /\ InitBreaker
    /\ InitCallers
    /\ InitDetect
    /\ InitFactory
    /\ InitWebhook
    /\ InitLimiter
    /\ InitFilter
    /\ InitRetry
    /\ InitDeepSeek
    /\ InitEdit
    /\ \E stored \in {<<>>} \cup {<<m>> : m \in StoredMessages}, known \in BOOLEAN :
          /\ users_collection =
                IF known THEN ("u1" :> [contexts |-> stored]) ELSE <<>>
          /\ mclient = [IdleClient EXCEPT
                          !.sent["u1"] = IF known THEN stored ELSE <<>>]
    /\ InitSplit

NextManager ==
    \/ \E u \in Users, m \in StoredMessages : AddMessage(u, m)
    \/ \E u \in Users : AddMessageRaises(u)
    \/ \E u \in Users : GetUserContext(u)

SpecManager == InitManagerSpec /\ [][NextManager]_vars

\* SpecSplit: split_long_message is applied to a text of letters and line
\* breaks with a small max_length
InitSplitSpec ==
    /\ history = [u \in Users |-> <<>>]
    /\ image_history = [u \in Users |-> <<>>]
    /\ document_history = [u \in Users |-> <<>>]
    /\ preference = [u \in Users |-> "unset"]
    /\ last_queries = [u \in Users |-> <<>>]
    /\ InitRequests
    /\ InitBreaker
    /\ InitCallers
    /\ InitDetect
    /\ InitFactory
    /\ InitWebhook
    /\ InitLimiter
    /\ InitFilter
    /\ InitRetry
    /\ InitDeepSeek
    /\ InitEdit
    /\ InitManager
    /\ \E n \in 0..MaxText, max_length \in {2, 3} :
          \E text \in [1..n -> {"a", "\n"}] :
              split = [IdleSplit EXCEPT !.pc = "input", !.text = text,
                                        !.max_length = max_length]

SpecSplit == InitSplitSpec /\ [][Split]_vars

\* SpecUpdate: the webhook with updates whose processing may fail
NextUpdate ==
    \/ NextWebhook
    \/ \E stage \in Stages : process_update_fails(stage)

SpecUpdate == Init /\ [][NextUpdate]_vars

\* SpecLimiter: text requests and attachments of any user in flight together
NextLimiter ==
    \/ \E kind \in AttachmentKinds : AttachmentArrives(kind)
    \/ \E kind \in AttachmentKinds : EnterLimiter(kind)
    \/ \E kind \in AttachmentKinds : LeaveLimiter(kind)
    \/ TextCallBegins
    \/ TextCallEnds

SpecLimiter == InitBreakerSpec /\ [][NextLimiter]_vars

(***************************************************************************)
(* Properties                                                              *)
(***************************************************************************)

TextBackends == {"gemini", "deepseek"}

\* the latest call a request made
LastCall(r) == req[r].calls[Len(req[r].calls)]

\* C1: a text request whose model invocation failed (timeout, exception in the
\* backend call or in the wrapper around it, None or empty reply, open
\* circuit) leaves the user's stored history as the request read it
C1_FailureKeepsHistory ==
    \A r \in Reqs :
        (req[r].failure # "no"
            /\ req[r].pc \in {"failed", "replied", "undelivered", "error"})
            => /\ req[r].appended = <<>>
               /\ history[req[r].user] = req[r].user_context

\* the markers of the style block and of the attachment context in a prompt
PromptMarkers ==
    { StyleInstruction("gemini"), StyleInstruction("deepseek"), "\n\nUser query: " }
        \cup {ImageIntro[1], DocumentIntro[1], DocumentAlso[1], MoreIntro[1],
              MoreOutro[1], UserQuestion[1]}

HasMarker(content) == \E k \in DOMAIN content : content[k] \in PromptMarkers

IsNote(item) ==
    \E n \in 1..20 : item = ContentDict("user", OmittedNote(n))

SentContext(conversation) ==
    LET inner == [i \in 1..(Len(conversation) - 3) |-> conversation[i + 2]]
    IN  SelectSeq(inner, LAMBDA item : ~IsNote(item))

SentNotes(conversation) ==
    LET inner == [i \in 1..(Len(conversation) - 3) |-> conversation[i + 2]]
    IN  SelectSeq(inner, IsNote)

AsContent(turns) ==
    [i \in 1..Len(turns) |->
        ContentDict(IF turns[i].role = "user" THEN "user" ELSE "model",
                    turns[i].content)]

\* C3 (for the Gemini model, K = max_context_length): with more than K stored
\* turns the context sent is the K most recent turns and one note giving the
\* number of omitted turns; with at most K turns all are sent and no note
C3_ContextWindow ==
    \A r \in Reqs :
        (req[r].pc = "model" /\ LastCall(r).backend = "gemini")
            => LET stored == req[r].user_context
                   n == Len(stored)
                   sent == LastCall(r).conversation
               IN  IF n > max_context_length
                   THEN /\ SentContext(sent) =
                              AsContent(TakeLast(stored, max_context_length))
                        /\ SentNotes(sent) =
                              <<ContentDict("user", OmittedNote(n - max_context_length))>>
                   ELSE /\ SentContext(sent) = AsContent(stored)
                        /\ SentNotes(sent) = <<>>

\* C4: a call that begins after five failed calls in a row for its API name,
\* less than circuit_breaker_timeout after the latest of them, returns
\* without awaiting the backend function
C4_OpenCircuitShortCircuits ==
    \A c \in Callers :
        cb[c].tripped => (cb[c].pc = "returned" /\ cb[c].last = "short")

\* such a call was made and came back at once
C4_Witness ==
    \E c \in Callers :
        /\ cb[c].tripped
        /\ cb[c].last = "short"
        /\ streak[cb[c].api] = circuit_breaker_threshold
        /\ now > lastFailAt[cb[c].api]

\* C5: when the count of an API name has reached the threshold and a call
\* begun after that is the first to return a reply, the count is 0 as the
\* call returns and no call for that name is refused at any later time
C5_SuccessResets ==
    [][ \A c \in Callers :
          ( /\ cb[c].pc = "calling"
            /\ cb[c].probe
            /\ opened[cb[c].api]
            /\ cb'[c].pc = "returned"
            /\ cb'[c].last = "result" )
          => /\ failures'[cb[c].api] = 0
             /\ \A t \in now..(now + circuit_breaker_timeout) :
                   ~CircuitOpen(failures'[cb[c].api], last_failure'[cb[c].api], t)
      ]_vars

\* a call admitted after the window of an open circuit returned a reply
C5_Witness ==
    \E c \in Callers :
        /\ cb[c].probe
        /\ cb[c].last = "result"
        /\ cb[c].failures >= circuit_breaker_threshold
        /\ failures[cb[c].api] = 0
        /\ ~opened[cb[c].api]

\* C6: a preference that is unset, cannot be read or names no registered
\* model is served by Gemini, and reading it surfaces no error notice
C6_FallsBackToGemini ==
    \A r \in Reqs :
        (req[r].read \in {"None", "error", "nonexistent"})
            => /\ \A i \in DOMAIN req[r].calls :
                     req[r].calls[i].backend \in {"imagen", "gemini"}
               /\ req[r].pc = "model"
                     => /\ LastCall(r).backend = "gemini"
                        /\ \A k \in DOMAIN req[r].sent :
                              req[r].sent[k] \notin {ErrorNotice, InternalErrorNotice}

\* a request of a user whose stored preference is "nonexistent" was answered
\* by Gemini
C6_Witness ==
    \E r \in Reqs :
        /\ req[r].read = "nonexistent"
        /\ req[r].pc = "replied"
        /\ req[r].failure = "no"
        /\ LastCall(r).backend = "gemini"
        /\ req[r].sent = <<<<ModelIndicator("nonexistent"), "\n\n">> \o req[r].response.text>>

\* the message texts that hold a trigger phrase and a follow-up keyword
WithTriggerAndKeyword ==
    {m \in MessageTexts :
        /\ Detected[m][1]
        /\ \/ RefersTo(image_related_keywords, m)
           \/ RefersTo(document_related_keywords, m)}

TriggerAndKeyword(message_text) == message_text \in WithTriggerAndKeyword

\* the request has classified its message
Classified(r) ==
    req[r].pc \in {"imagegen", "image", "preference", "acquire", "model",
                   "deliver",
                   "failed", "replied", "undelivered"}
        \/ (req[r].pc = "error" /\ ~req[r].storeFailed)

Occurring(text_lower) ==
    {image_triggers[i] : i \in {k \in DOMAIN image_triggers :
                                   Contains(text_lower, image_triggers[k])}}

Longest(triggers) == {t \in triggers : \A o \in triggers : Len(o) <= Len(t)}

\* the text after the first occurrence of a trigger, stripped and cleaned
Following(text, trigger) ==
    CleanPrompt(Strip(DropFirst(text, Find(Lower(text), trigger) + Len(trigger))), 1)

\* C8: for a text holding a trigger phrase the detector returns TRUE and the
\* text that follows the first occurrence of the longest occurring trigger,
\* leading filler words removed
C8_PromptFollowsTrigger ==
    (dpc = "done" /\ Occurring(Lower(dtext)) # {})
        => /\ dresult[1]
           /\ \E trigger \in Longest(Occurring(Lower(dtext))) :
                 dresult[2] = Following(dtext, trigger)

\* the request has built the prompt for a message that refers to a document
\* while the user has documents
AsksAboutDocument(r) ==
    /\ req[r].pc = "model"
    /\ RefersTo(document_related_keywords, req[r].message_text)
    /\ document_history[req[r].user] # <<>>

\* C9: the prompt sent for a message that refers to a document holds the
\* full_response of the most recent document record in full, not its
\* truncated summary and not the content of an older record
C9_LatestDocumentInFull ==
    \A r \in Reqs :
        AsksAboutDocument(r)
            => LET records == document_history[req[r].user]
                   latest == records[Len(records)]
                   sent == LastCall(r).prompt
               IN  /\ Contains(sent, latest.full_response)
                   /\ latest.summary # latest.full_response
                         => ~Contains(sent, latest.summary)
                   /\ \A i \in 1..(Len(records) - 1) :
                         records[i].full_response # latest.full_response
                            => ~Contains(sent, records[i].full_response)

\* "Tell me more" was asked by a user with two documents, the later one longer
\* than its summary
C9_Witness ==
    \E r \in Reqs :
        /\ AsksAboutDocument(r)
        /\ req[r].message_text = M_more
        /\ Len(document_history[req[r].user]) = 2
        /\ document_history[req[r].user][2].summary
              # document_history[req[r].user][2].full_response
        /\ Contains(LastCall(r).prompt, SecondDocument)

\* C10: of two requests of one user in flight together, the one that read the
\* history second has read the turns the other one appended
C10_SecondReaderSeesFirst ==
    \A r \in Reqs : \A q \in req[r].readAfter :
        (req[q].user = req[r].user /\ req[q].appended # <<>>)
            => \E i \in 1..(Len(req[r].user_context) - 1) :
                  /\ req[r].user_context[i] = req[q].appended[1]
                  /\ req[r].user_context[i + 1] = req[q].appended[2]

\* C11 (its safety part): a request that passed the group gate and has ended
\* has delivered at least one message or has raised its error to the caller
C11_NeverSilent ==
    \A r \in Reqs :
        (req[r].pc \in Finished \ {"ignored"})
            => (req[r].sent # <<>> \/ req[r].pc = "raised")

C13_FailsWithoutClient ==
    /\ [](\A c \in Callers :
            /\ fc[c].pc = "returned"
                  => /\ fc[c].model_name \in KnownModels
                     /\ fc[c].result.model_name = fc[c].model_name
                     /\ fc[c].result.client
            /\ fc[c].pc = "failed"
                  => \/ fc[c].model_name \notin KnownModels
                     \/ ~fc[c].supplied
            /\ (fc[c].pc \in {"return", "returned"}
                  /\ fc[c].model_name \notin KnownModels) => FALSE)
    /\ [][ \A c \in Callers :
             (fc[c].pc # "failed" /\ fc'[c].pc = "failed")
                => (handlers' = handlers /\ constructed' = constructed) ]_vars

\* a call for a known name without a client failed while another name's
\* handler stayed in the cache
C13_Witness ==
    \E c \in Callers :
        /\ fc[c].pc = "failed"
        /\ fc[c].model_name \in KnownModels
        /\ ~fc[c].supplied
        /\ \E n \in KnownModels : handlers[n] # NoHandler

ImageFailed(r) ==
    /\ req[r].calls # <<>>
    /\ req[r].calls[1].backend = "imagen"
    /\ req[r].pc # "image"

\* C15: an image request whose generation failed continues on the text path:
\* once the text model has answered it, the request ends with that reply
\* delivered and not with an error notice
C15_ImageFailureFallsBack ==
    \A r \in Reqs :
        ( /\ ImageFailed(r)
          /\ req[r].pc \in Finished
          /\ req[r].failure = "no"
          /\ Truthy(req[r].response) )
        => /\ req[r].pc = "replied"
           /\ \E i \in 1..Len(req[r].sent) :
                 req[r].sent[i] =
                    <<ModelIndicator(req[r].preferred_model), "\n\n">>
                        \o req[r].response.text

\* C16: a request whose read of the stored history failed does not end in an
\* error: no error notice is sent for it and nothing is raised to the caller
C16_StoreFailureDegrades ==
    \A r \in Reqs :
        req[r].storeFailed
           => /\ req[r].pc \notin {"error", "raised"}
              /\ \A i \in 1..Len(req[r].sent) :
                    req[r].sent[i] # InternalErrorNotice

\* how many of a request's messages are the given notice
Count(sent, notice) ==
    Cardinality({i \in 1..Len(sent) : sent[i] = notice})

\* the calls a request made to a text backend
TextCalls(r) ==
    SelectSeq(req[r].calls, LAMBDA call : call.backend \in TextBackends)

\* C17: a request whose model invocation ran into the timeout has replied with
\* exactly one timeout notice, has invoked the model once only and has
\* appended no turn
C17_TimeoutNoticeOnce ==
    \A r \in Reqs :
        (req[r].failure = "timeout" /\ req[r].pc \in Finished)
           => /\ Count(req[r].sent, TimeoutNotice) = 1
              /\ Len(TextCalls(r)) = 1
              /\ req[r].appended = <<>>

\* C18: whenever a request has its call at a text backend, Gemini or DeepSeek,
\* a rate-limiter acquire has completed for it and the circuit-breaker check
\* has admitted it
C18_CallsAreGuarded ==
    \A r \in Reqs :
        (req[r].pc = "model" /\ LastCall(r).backend \in TextBackends)
           => (req[r].acquired /\ req[r].admitted)

\* C19: of the handler runs begun for one update only the first does
\* anything: a later run for the same update invokes no model, sends no
\* reply and appends no turn
C19_DuplicateSuppressed ==
    \A r \in Reqs :
        (req[r].update_id # 0 /\ dispatched[req[r].update_id] > 1)
           => /\ req[r].calls = <<>>
              /\ req[r].sent = <<>>
              /\ req[r].appended = <<>>

GroupChats == {"group", "supergroup"}

\* the offsets in a text at which a bot mention starts
MentionsAt(text) ==
    {i \in 0..(Len(text) - Len(BotUsername)) : OccursAt(text, BotUsername, i)}

\* the text without the characters of its bot mentions, blanks at both ends
\* dropped
WithoutMentions(text) ==
    LET kept(k) == \A i \in MentionsAt(text) :
                      ~(i < k /\ k <= i + Len(BotUsername))
        F[k \in 0..Len(text)] ==
            IF k = 0 THEN <<>>
            ELSE IF kept(k) THEN Append(F[k - 1], text[k]) ELSE F[k - 1]
    IN  Strip(F[Len(text)])

\* the group messages with a mention, each with its text without the
\* mentions and with what the detector finds in that text
Mentioning ==
    {i[2] : i \in {j \in Inbound : j[1] \in GroupChats /\ MentionsAt(j[2]) # {}}}
Stripped == [text \in Mentioning |-> WithoutMentions(text)]
DetectedStripped ==
    [text \in Mentioning |-> detect_image_generation_request(Stripped[text])]

\* the request is past the classification of its message
PastClassification(r) ==
    req[r].pc \in {"imagegen", "image", "preference", "acquire", "model",
                   "deliver", "failed", "replied", "undelivered"}

\* C20: in a group or supergroup a message without a bot mention is ignored,
\* with no model invocation and no reply; a message with a mention has its
\* follow-up keywords and its image trigger detected on the text without the
\* mentions
C20_GroupGate ==
    \A r \in Reqs :
        (req[r].chat \in GroupChats /\ req[r].pc \notin {"idle", "returned"})
           => IF MentionsAt(req[r].text) = {}
              THEN /\ req[r].pc = "ignored"
                   /\ req[r].calls = <<>>
                   /\ req[r].sent = <<>>
                   /\ req[r].appended = <<>>
              ELSE LET stripped == Stripped[req[r].text]
                       found == DetectedStripped[req[r].text]
                       u == req[r].user
                   IN  /\ req[r].pc # "ignored"
                       /\ req[r].message_text = stripped
                       /\ PastClassification(r)
                             => /\ req[r].enhanced_prompt =
                                      EnhancedPrompt(stripped, image_history[u],
                                                     document_history[u])
                                /\ req[r].image_prompt =
                                      IF found[1] THEN found[2] ELSE <<>>

\* a supergroup message with two mentions went down the image path with the
\* prompt found in the text without them
C20_Witness ==
    \E r \in Reqs :
        /\ req[r].chat = "supergroup"
        /\ Cardinality(MentionsAt(req[r].text)) = 2
        /\ req[r].pc = "image"
        /\ req[r].image_prompt = <<"a"," ","c","a","t">>

\* C21: the requests that are executing a model call or a document-processing
\* call at one moment, text, image and document together, are never more than
\* the cap of 20
C21_GlobalCap ==
    text_calls + inside["document"] + inside["image"] <= request_limit

\* C22: a call that begins while the circuit of its API name is open (the
\* count at the threshold or above, the latest failure less than
\* circuit_breaker_timeout ago) returns at once and changes no failure
\* counter and no last-failure timestamp, of its own API name or of another
C22_RefusalChangesNothing ==
    [][ \A c \in Callers : \A api \in ApiNames :
          ( /\ CallBegin(c, api)
            /\ failures[api] >= circuit_breaker_threshold
            /\ now - last_failure[api] < circuit_breaker_timeout )
          => /\ cb'[c].pc = "returned"
             /\ cb'[c].last = "short"
             /\ failures' = failures
             /\ last_failure' = last_failure
      ]_vars

\* a call was refused after the clock had moved and the count stands at the
\* threshold
C22_Witness ==
    \E c \in Callers :
        /\ cb[c].last = "short"
        /\ failures[cb[c].api] = circuit_breaker_threshold
        /\ last_failure[cb[c].api] > 0

\* the failures of an API name that lie less than circuit_breaker_timeout back
FailuresInWindow(api) ==
    Cardinality({i \in 1..Len(failedAt[api]) :
                    now - failedAt[api][i] < circuit_breaker_timeout})

\* C23: whenever the circuit of an API name is open, at least
\* circuit_breaker_threshold calls of that API failed within the last
\* circuit_breaker_timeout seconds
C23_OpenOnlyOnRecentFailures ==
    \A api \in ApiNames :
        CircuitOpen(failures[api], last_failure[api], now)
           => FailuresInWindow(api) >= circuit_breaker_threshold

\* the message of the request refers to images and to documents, and the user
\* has both kinds of history
RefersToBoth(r) ==
    /\ RefersTo(image_related_keywords, req[r].message_text)
    /\ RefersTo(document_related_keywords, req[r].message_text)
    /\ image_history[req[r].user] # <<>>
    /\ document_history[req[r].user] # <<>>

\* part occurs in text, and after its end so does later
InOrder(text, part, later) ==
    \E i \in 0..(Len(text) - Len(part)) :
        /\ OccursAt(text, part, i)
        /\ \E j \in (i + Len(part))..(Len(text) - Len(later)) :
              OccursAt(text, later, j)

\* C24: when a message refers to images and to documents and both histories
\* are non-empty, the prompt at the text model holds the image context and,
\* after it, the document context
C24_ImageThenDocument ==
    \A r \in Reqs :
        ( /\ req[r].pc = "model"
          /\ LastCall(r).backend \in TextBackends
          /\ RefersToBoth(r) )
        => InOrder(LastCall(r).prompt,
                   get_image_context(image_history[req[r].user]),
                   get_document_context(document_history[req[r].user]))

\* C29: the prompt a text request hands to its text model contains the
\* message text of the request as it is
C29_PromptHoldsMessage ==
    \A r \in Reqs :
        (req[r].pc = "model" /\ LastCall(r).backend \in TextBackends)
           => Contains(LastCall(r).prompt, req[r].message_text)


(***************************************************************************)
(* Stored histories with malformed entries (text_handlers.py 110-120,      *)
(* gemini_api.py 411-420)                                                  *)
(***************************************************************************)

MaxItems == 2

\* what the store may hold for a user: turns, a value that is no record,
\* records without role or content, records whose role or content is empty
StoredItems ==
    { Turn("user", <<"q">>), Turn("assistant", <<"a">>),
      [scalar |-> "text"],
      [content |-> <<"a">>],
      [role |-> "user"],
      Turn("", <<"q">>),
      Turn("user", <<>>) }

StoredHistories == UNION { [1..n -> StoredItems] : n \in 0..MaxItems }

InitStored ==
    /\ \E stored \in StoredHistories :
          history = [u \in Users |-> IF u = "u1" THEN stored ELSE <<>>]
    /\ image_history = [u \in Users |-> <<>>]
    /\ document_history = [u \in Users |-> <<>>]
    /\ \E m \in {"unset", "deepseek"} :
          preference = [u \in Users |-> IF u = "u1" THEN m ELSE "unset"]
    /\ last_queries = [u \in Users |-> <<>>]
    /\ InitRequests
    /\ InitBreaker
    /\ InitCallers
    /\ InitDetect
    /\ InitFactory
    /\ InitWebhook
    /\ InitLimiter
    /\ InitFilter
    /\ InitRetry
    /\ InitDeepSeek
    /\ InitEdit
    /\ InitManager
    /\ InitSplit

\* SpecStored: the user whose history holds such entries writes to the bot
NextStored ==
    \/ \E r \in Reqs, inbound \in RaceInbound :
          Alone(r) /\ Receive(r, "u1", inbound)
    \/ \E r \in Reqs : Serve(r)

SpecStored == InitStored /\ [][NextStored]_vars

\* deepseek_handler.py 85-89
DeepSeekSystemMessage ==
    <<"You are DeepSeek, an AI assistant based on the DeepSeek-70B model. ...">>

\* no reminder is added
NoReminder(context) == <<>>

\* deepseek_handler.py 34-45: the reminder of the conversation memory
MemoryInstruction(context) ==
    IF context # <<>>
    THEN <<Turn("system", <<"IMPORTANT: You have access to ", Numeral(Len(context)),
                            " previous messages in this conversation.">>)>>
    ELSE <<>>

\* deepseek_handler.py 27-66: the messages DeepSeekHandler sends for a prompt
\* and a context; only items that are no record or lack a key are skipped
DeepSeekMessages(prompt, context) ==
    <<Turn("system", DeepSeekSystemMessage)>>
        \o MemoryInstruction(context)
        \o SelectSeq(context, ValidItem)
        \o <<Turn("user", prompt)>>

\* generate_response is called and builds its messages
BuildMessages ==
    /\ deepseek.pc = "input"
    /\ deepseek' = [deepseek EXCEPT
                       !.messages = DeepSeekMessages(deepseek.prompt, deepseek.context),
                       !.pc = "done"]
    /\ UNCHANGED <<storeVars, req, breakerVars, callerVars, detectVars,
                   factoryVars, webhookVars, limiterVars, windowVars, filterVars,
                   retryVars, editVars, managerVars, splitVars, updateVars>>

\* SpecDeepSeek: generate_response is called with a prompt and a context
InitDeepSeekSpec ==
    /\ history = [u \in Users |-> <<>>]
    /\ image_history = [u \in Users |-> <<>>]
    /\ document_history = [u \in Users |-> <<>>]
    /\ preference = [u \in Users |-> "unset"]
    /\ last_queries = [u \in Users |-> <<>>]
    /\ InitRequests
    /\ InitBreaker
    /\ InitCallers
    /\ InitDetect
    /\ InitFactory
    /\ InitWebhook
    /\ InitLimiter
    /\ InitFilter
    /\ InitRetry
    /\ \E prompt \in {M_hi, M_more}, context \in StoredHistories :
          deepseek = [IdleDeepSeek EXCEPT !.pc = "input", !.prompt = prompt,
                                          !.context = context]
    /\ InitEdit
    /\ InitManager
    /\ InitSplit

SpecDeepSeek == InitDeepSeekSpec /\ [][BuildMessages]_vars

\* a well-formed entry of a conversation: a record with a non-empty role and
\* a non-empty content (Gemini: parts)
WellFormed(entry) ==
    /\ IsDict(entry)
    /\ "role" \in DOMAIN entry /\ entry.role # ""
    /\ \/ "content" \in DOMAIN entry /\ entry.content # <<>>
       \/ "parts" \in DOMAIN entry /\ entry.parts # <<>>

\* C25: on both model paths, every entry of the conversation handed to the
\* text model is a record with a non-empty role and a non-empty content;
\* stored entries that are malformed or empty are left out
C25_MalformedNeverPassed ==
    \A r \in Reqs : \A i \in 1..Len(req[r].calls) :
        LET call == req[r].calls[i]
            messages == DeepSeekMessages(call.prompt, call.conversation)
        IN  /\ call.backend \in TextBackends
                  => \A k \in 1..Len(call.conversation) :
                         WellFormed(call.conversation[k])
            /\ call.backend = "deepseek"
                  => \A k \in 1..Len(messages) : WellFormed(messages[k])

(***************************************************************************)
(* handle_image (text_handlers.py 376-462) and analyze_image               *)
(* (gemini_api.py 163-206)                                                 *)
(***************************************************************************)

\* how the analysis of an image ends: with a description; with an empty
\* description; the image fails validation (169-170); the vision model
\* raises or returns nothing (195-199); the image cannot be identified
\* (201-203); any other exception (204-206); rate_limiter.acquire() raises
\* outside the try block (165)
AnalysisOutcomes ==
    {"ok", "empty", "invalid", "vision_error", "unidentified", "error",
     "acquire_raises"}

AnalysisSucceeded(outcome) == outcome = "ok"

\* gemini_api.py 163-206: what analyze_image returns; every failure it
\* catches comes back as a text of apology
analyze_image(outcome) ==
    CASE outcome = "ok" -> TextResponse(<<"a cat on a mat">>)
      [] outcome = "empty" -> TextResponse(<<>>)
      [] outcome = "invalid" ->
            TextResponse(<<"Sorry, the image format is not supported. Please send a JPEG or PNG image.">>)
      [] outcome = "vision_error" ->
            TextResponse(<<"I'm sorry, there was an error processing your image. Please try again later.">>)
      [] outcome = "unidentified" ->
            TextResponse(<<"Sorry, the image format is not supported. Please send a valid image.">>)
      [] outcome = "error" ->
            TextResponse(<<"I'm sorry, I encountered an error processing your image. Please try again with a different image.">>)

ImageNotAnalysedNotice == <<"Sorry, I couldn't analyze the image\\. Please try again\\.">>
ImageNotProcessedNotice == <<"Sorry, I couldn't process your image\\.">>

\* lines 376-399: a photo arrives in a private chat without a caption
ImageArrives(r, u) ==
    /\ req[r].pc = "idle"
    /\ req' = [req EXCEPT ![r] = [@ EXCEPT !.pc = "analyze", !.user = u,
                                           !.text = ImageCaption]]
    /\ UNCHANGED <<storeVars, breakerVars, callerVars, detectVars, factoryVars,
                   webhookVars, limiterVars, windowVars, filterVars, retryVars,
                   deepseekVars, editVars, managerVars, splitVars, updateVars>>

\* lines 400-462: analyze_image returns or raises; a reply that is true is
\* sent chunk by chunk and stored in both histories, an empty one is answered
\* with a notice, an exception (of the analysis or of the plain-text resend
\* of a chunk) with the notice of the except clause
ImageAnalysed(r, outcome, delivered) ==
    /\ req[r].pc = "analyze"
    /\ LET u == req[r].user
           raised == outcome = "acquire_raises"
           response == IF raised THEN NoneResponse ELSE analyze_image(outcome)
           stored == ~raised /\ Truthy(response) /\ delivered
           data == AfterImage([history |-> history[u],
                               image_history |-> image_history[u]],
                              response.text)
       IN  /\ history' = IF stored THEN [history EXCEPT ![u] = data.history]
                                   ELSE history
           /\ image_history' =
                  IF stored THEN [image_history EXCEPT ![u] = data.image_history]
                            ELSE image_history
           /\ req' = [req EXCEPT ![r] =
                        [@ EXCEPT
                           !.response = response,
                           !.failure = IF AnalysisSucceeded(outcome) THEN "no"
                                                                     ELSE outcome,
                           !.sent = IF stored THEN <<response.text>>
                                    ELSE IF raised \/ Truthy(response)
                                         THEN <<ImageNotProcessedNotice>>
                                         ELSE <<ImageNotAnalysedNotice>>,
                           !.pc = "returned"]]
    /\ UNCHANGED <<preference, document_history, last_queries, breakerVars,
                   callerVars, detectVars, factoryVars, webhookVars,
                   limiterVars, windowVars, filterVars, retryVars,
                   deepseekVars, editVars, managerVars, splitVars, updateVars>>

\* SpecImage: users send photos, also while another photo is being analysed
NextImage ==
    \/ \E r \in Reqs, u \in Users : ImageArrives(r, u)
    \/ \E r \in Reqs, outcome \in AnalysisOutcomes, delivered \in BOOLEAN :
          ImageAnalysed(r, outcome, delivered)

SpecImage == Init /\ [][NextImage]_vars

\* C26: handle_image appends the image record and the "[Image with caption
\* ...]" turns only when the analysis succeeded; when the analysis failed,
\* the conversation history and the image history stay as they were
C26_StoredOnlyOnSuccess ==
    [][ \A r \in Reqs, outcome \in AnalysisOutcomes, delivered \in BOOLEAN :
          (ImageAnalysed(r, outcome, delivered) /\ ~AnalysisSucceeded(outcome))
              => history' = history /\ image_history' = image_history ]_vars

\* the name the filter looks for
UsernameSought == IF fusername = <<>> THEN FallbackUsername ELSE fusername

\* the update is a message in a group or supergroup
InGroup ==
    /\ "message" \in DOMAIN fupdate
    /\ IsDict(fupdate.message)
    /\ fupdate.message.chat_type \in {"group", "supergroup"}

CarriesMedia ==
    \E key \in {"photo", "sticker", "animation", "video"} : key \in fupdate.message.keys

\* the bot is mentioned in the text, or a text-mention entity names it
MentionsBot ==
    \/ Contains(fupdate.message.text, <<"@">> \o UsernameSought)
    \/ \E i \in 1..Len(fupdate.message.entities) :
          LET entity == fupdate.message.entities[i]
          IN  /\ IsDict(entity)
              /\ entity.type = "text_mention"
              /\ entity.user.is_bot
              /\ entity.user.username = UsernameSought

\* C27: should_ignore_update returns True exactly for a message in a group or
\* supergroup that carries a photo, sticker, animation or video (mentioned or
\* not), has no text, or has a text that does not mention the bot; it returns
\* False for private messages, for updates without a message and whenever the
\* filter raised
C27_IgnoresExactly ==
    fpc = "done" =>
        /\ FilterBody(fupdate, fusername) # "raised"
              => (fignore <=> /\ InGroup
                              /\ \/ CarriesMedia
                                 \/ "text" \notin fupdate.message.keys
                                 \/ ~MentionsBot)
        /\ FilterBody(fupdate, fusername) = "raised" => ~fignore
        /\ "message" \notin DOMAIN fupdate => ~fignore
        /\ ( /\ "message" \in DOMAIN fupdate
             /\ IsDict(fupdate.message)
             /\ fupdate.message.chat_type = "private" ) => ~fignore

\* a group message with a photo whose caption text mentions the bot has been
\* ignored
C27_Witness ==
    /\ fpc = "done" /\ fignore
    /\ InGroup /\ "photo" \in fupdate.message.keys
    /\ "text" \in fupdate.message.keys /\ MentionsBot

\* C28: with calls for one API name in flight at the same time no failure is
\* lost or undone: every call that fails raises the counter of its API by
\* one, so that k failures without a success in between count k, and never
\* lowers it or closes a circuit that was open
C28_NoFailureLost ==
    [][ \A c \in Callers :
          CallRaises(c)
              => /\ failures'[cb[c].api] = failures[cb[c].api] + 1
                 /\ CircuitOpen(failures[cb[c].api], last_failure[cb[c].api], now)
                       => CircuitOpen(failures'[cb[c].api],
                                      last_failure'[cb[c].api], now') ]_vars

\* C30: handle_text_message appends the two turns only if at least one chunk
\* of the reply was delivered; when sending every chunk failed, nothing was
\* appended to the history
C30_StoredOnlyIfDelivered ==
    \A r \in Reqs : req[r].pc = "undelivered" => req[r].appended = <<>>

\* the name a reply of a backend should carry
NameOf(backend) == IF backend = "gemini" THEN "Gemini" ELSE "DeepSeek"

\* C31: the model indicator at the head of a text reply names the backend that
\* generated the reply, whatever the stored preferred model is
C31_IndicatorNamesBackend ==
    \A r \in Reqs :
        ( /\ req[r].pc = "replied"
          /\ req[r].calls # <<>>
          /\ LastCall(r).backend \in TextBackends )
            => req[r].sent[Len(req[r].sent)][1] = NameOf(LastCall(r).backend)

\* the rate-limit errors among the first n invocations
RateLimited(n) == \A i \in 1..n : IsRateLimit(retry.calls[i])

\* 1, 2, 4, ...
RECURSIVE Doubling(_)
Doubling(n) == IF n = 0 THEN <<>> ELSE Append(Doubling(n - 1), 2 ^ (n - 1))

\* C32: generate_content_with_retry invokes the backend at most max_retries
\* times, goes on to another attempt only after a rate-limit error, waits 1,
\* 2, 4, ... seconds between successive attempts, and an error that is no
\* rate limit leaves the function as it is, with no attempt after it
C32_RetryPolicy ==
    /\ Len(retry.calls) <= retry.max_retries
    /\ RateLimited(Len(retry.calls) - 1)
    /\ retry.waits = Doubling(retry.attempt)
    /\ retry.pc = "loop" => retry.attempt = Len(retry.calls)
    /\ \A i \in 1..Len(retry.calls) :
          (retry.calls[i] # NoError /\ ~IsRateLimit(retry.calls[i]))
              => /\ i = Len(retry.calls)
                 /\ retry.pc = "raised"
                 /\ retry.raised = retry.calls[i]

\* the text begins with a filler word and a space
BeginsWithFiller(text) ==
    \E k \in DOMAIN clean_words : StartsWith(Lower(text), clean_words[k] \o <<" ">>)

\* C33: the prompt detect_image_generation_request returns for an image
\* request never begins with a filler word followed by a space, in whatever
\* order the filler words follow the trigger
C33_NoLeadingFiller ==
    (dpc = "done" /\ dresult[1]) => ~BeginsWithFiller(dresult[2])

\* the positions of the valid turns of the supplied context
ValidAt == {i \in 1..Len(deepseek.context) : ValidItem(deepseek.context[i])}

\* the reminders among the messages
RemindersAt ==
    {k \in 1..Len(deepseek.messages) :
        /\ deepseek.messages[k].role = "system"
        /\ deepseek.messages[k].content[1] = "IMPORTANT: You have access to "}

\* C34: the messages DeepSeekHandler.generate_response sends are the fixed
\* system message, then one reminder of the conversation memory exactly when
\* the supplied context is non-empty, then the valid turns of the context in
\* their order, then the user's prompt as the last message
C34_MessageOrder ==
    deepseek.pc = "done" =>
        LET messages == deepseek.messages
            lead == IF deepseek.context # <<>> THEN 2 ELSE 1
        IN  /\ Len(messages) = lead + Cardinality(ValidAt) + 1
            /\ messages[1] = Turn("system", DeepSeekSystemMessage)
            /\ RemindersAt = IF deepseek.context # <<>> THEN {2} ELSE {}
            /\ \A i \in ValidAt :
                  messages[lead + Cardinality({j \in ValidAt : j <= i})]
                      = deepseek.context[i]
            /\ messages[Len(messages)] = Turn("user", deepseek.prompt)

\* the messages were built from a context with an invalid item before a turn
C34_Witness ==
    /\ deepseek.pc = "done"
    /\ Len(deepseek.context) = 2
    /\ ValidAt = {2}
    /\ Len(deepseek.messages) = 4

\* C35: a text message or an edit of one in a group chat that does not
\* mention the bot changes nothing: the history, the last query, the map
\* bot_messages and the chat (nothing sent, nothing deleted) stay as they were
C35_UnmentionedChangesNothing ==
    [][ \A r \in Reqs, u \in Users, inbound \in Inbound, edited \in {0, 1} :
          ( /\ Arrives(r, u, inbound, 0, edited)
            /\ inbound[1] \in GroupChats
            /\ ~Contains(inbound[2], BotUsername) )
              => /\ history' = history
                 /\ last_queries' = last_queries
                 /\ bot_messages' = bot_messages
                 /\ deleted' = deleted
                 /\ req'[r].sent = <<>> ]_vars

\* C36: for every user, also one without a stored document, once add_message
\* has returned without error the list get_user_context returns holds the
\* messages added for the user, in their order, the last one at the end
C36_AddedIsRead ==
    mclient.last = "read" => mclient.got = mclient.sent[mclient.user]

\* C37: for a non-empty text every chunk split_long_message returns is
\* non-empty and at most max_length long, also when a line of the text is
\* longer than max_length
C37_ChunksFit ==
    (split.pc = "done" /\ split.text # <<>>)
        => \A i \in 1..Len(split.chunks) :
               split.chunks[i] # <<>> /\ Len(split.chunks[i]) <= split.max_length

\* C38: no exception leaves process_update: a failure while the application
\* is started, while the update is decoded or while it is dispatched is
\* caught and logged inside
C38_NothingEscapes == escaped = <<>>
====
